---- MODULE Spec2Model ----
(***************************************************************************)
(* Verification model of the image transformation service                  *)
(* (backend/services/image_service.py, backend/api/routers/images.py).     *)
(*                                                                         *)
(* The arithmetic of the resize stage is Python float arithmetic (IEEE-754 *)
(* binary64): "/" on two ints and "*" of an int by a float are correctly   *)
(* rounded to 53 significant bits, and int() truncates.  The Float*        *)
(* operators below compute exactly that, so that int(h * (w / ow)) is the  *)
(* value the interpreter produces and not the exact quotient.              *)
(***************************************************************************)
EXTENDS Integers, Sequences, FiniteSets, TLC

(***************************************************************************)
(* Optional values: Python None is the empty tuple, a present value v is   *)
(* <<v>>.                                                                  *)
(***************************************************************************)
None == <<>>
Some(v) == <<v>>
IsNone(o) == o = <<>>
NotNone(o) == o # <<>>
Val(o) == o[1]
\* Python truthiness of an optional int, str and percentage: None, 0, "" are false.
TruthyInt(o) == o # <<>> /\ o[1] # 0
TruthyStr(o) == o # <<>> /\ o[1] # ""
TruthyScale(o) == o # <<>> /\ o[1].num # 0

Max(a, b) == IF a >= b THEN a ELSE b
Min(a, b) == IF a <= b THEN a ELSE b

(***************************************************************************)
(* IEEE-754 binary64 on non-negative values.  A float is [m, x]: m is the  *)
(* significand, an integer of exactly MantBits bits written as a sequence  *)
(* of limbs in base LimbBase (most significant first, no leading zero      *)
(* limb), and the value is int(m) * 2^x.  Zero is [m |-> <<>>, x |-> 0].   *)
(* The operands the service feeds in are ints below 2^17.                  *)
(***************************************************************************)
MantBits == 53
LimbBits == 13
LimbBase == 2^LimbBits

RECURSIVE BitLen(_)
BitLen(n) == IF n = 0 THEN 0 ELSE 1 + BitLen(n \div 2)

RECURSIVE BigFromNat(_)
BigFromNat(n) ==
  IF n = 0 THEN <<>> ELSE Append(BigFromNat(n \div LimbBase), n % LimbBase)

RECURSIVE BigToNat(_)
BigToNat(b) ==
  IF b = <<>> THEN 0
  ELSE LimbBase * BigToNat(SubSeq(b, 1, Len(b) - 1)) + b[Len(b)]

RECURSIVE BigStrip(_)
BigStrip(b) == IF b # <<>> /\ b[1] = 0 THEN BigStrip(Tail(b)) ELSE b

\* Bits of s, which has no leading zero limb.
StrippedBitLen(s) == IF s = <<>> THEN 0 ELSE BitLen(s[1]) + LimbBits * (Len(s) - 1)

BigBitLen(b) == StrippedBitLen(BigStrip(b))

BigZeros(n) == [i \in 1..n |-> 0]

\* b * k for a small k >= 0, by the schoolbook carry from the last limb.
RECURSIVE BigMulCarry(_, _, _, _, _)
BigMulCarry(b, k, i, carry, acc) ==
  IF i = 0 THEN BigFromNat(carry) \o acc
  ELSE LET t == k * b[i] + carry
       IN  BigMulCarry(b, k, i - 1, t \div LimbBase, <<t % LimbBase>> \o acc)

BigMulSmall(b, k) == BigStrip(BigMulCarry(b, k, Len(b), 0, <<>>))

\* Long division of b by a small d > 0: <<quotient, remainder>>.
RECURSIVE BigDivSteps(_, _, _, _, _)
BigDivSteps(b, d, i, r, acc) ==
  IF i > Len(b) THEN <<BigStrip(acc), r>>
  ELSE LET t == LimbBase * r + b[i]
       IN  BigDivSteps(b, d, i + 1, t % d, Append(acc, t \div d))

BigDivSmall(b, d) == BigDivSteps(b, d, 1, 0, <<>>)

\* b * 2^j.
BigShiftLeft(b, j) ==
  BigMulSmall(b, 2^(j % LimbBits)) \o BigZeros(j \div LimbBits)

\* <<floor(b / 2^j), whether a non-zero bit was shifted out>>; qr is the
\* division of the kept limbs, lost whether a whole dropped limb was non-zero.
ShiftedOut(qr, lost) == <<qr[1], lost \/ qr[2] # 0>>

BigShiftRight(b, j) ==
  LET whole == Min(j \div LimbBits, Len(b))
  IN  ShiftedOut(BigDivSmall(SubSeq(b, 1, Len(b) - whole), 2^(j % LimbBits)),
                 \E i \in (Len(b) - whole + 1)..Len(b) : b[i] # 0)

\* b + 1.
RECURSIVE BigInc(_)
BigInc(b) ==
  IF b = <<>> THEN <<1>>
  ELSE IF b[Len(b)] + 1 < LimbBase
    THEN Append(SubSeq(b, 1, Len(b) - 1), b[Len(b)] + 1)
  ELSE Append(BigInc(SubSeq(b, 1, Len(b) - 1)), 0)

FloatZero == [m |-> <<>>, x |-> 0]

\* A rounded significand r of weight 2^x, renormalised when the round-up
\* carried into a new bit.
Normalised(r, x) ==
  IF BigBitLen(r) > MantBits
    THEN [m |-> BigDivSmall(r, 2)[1], x |-> x + 1]
    ELSE [m |-> r, x |-> x]

\* Round to nearest, ties to even: keep is the kept significand, guard the
\* first dropped bit, rest whether any later dropped bit is set.
RoundedUp(keep, guard, rest, x) ==
  Normalised(IF guard /\ (rest \/ keep[Len(keep)] % 2 = 1) THEN BigInc(keep) ELSE keep,
             x)

\* g is <<significand with the guard bit still attached, dropped bits set>>.
RoundGuarded(g, sticky, x) ==
  RoundedUp(BigDivSmall(g[1], 2)[1], g[1][Len(g[1])] % 2 = 1, sticky \/ g[2], x)

\* s has no leading zero limb and n bits.
RoundToBits(s, n, x, sticky) ==
  IF n = 0 THEN FloatZero
  ELSE IF n <= MantBits
    THEN [m |-> BigShiftLeft(s, MantBits - n), x |-> x - (MantBits - n)]
  ELSE RoundGuarded(BigShiftRight(s, n - MantBits - 1), sticky, x + (n - MantBits))

\* Round the integer b (weight 2^x on its last bit; `sticky` when non-zero bits
\* were already dropped below it) to MantBits bits, to nearest, ties to even.
RoundNearestEven(b, x, sticky) == RoundToBits(BigStrip(b), BigBitLen(b), x, sticky)

\* float(n) for an int n >= 0.
IntToFloat(n) == RoundNearestEven(BigFromNat(n), 0, FALSE)

\* k * f for an int k >= 0 and a float f: the exact product, rounded once.
FloatMulInt(k, f) ==
  IF f.m = <<>> \/ k = 0 THEN FloatZero
  ELSE RoundNearestEven(BigMulSmall(f.m, k), f.x, FALSE)

\* The limbs appended to the dividend so that the quotient keeps guard bits.
ExtraLimbs(d) == (BitLen(d) + 2 + LimbBits) \div LimbBits

\* qr is <<quotient, remainder>> of weight 2^x; a remainder is a sticky bit.
RoundQuotient(qr, x) == RoundNearestEven(qr[1], x, qr[2] # 0)

\* f / d for a float f and an int d > 0: the exact quotient, rounded once.
FloatDivInt(f, d) ==
  IF f.m = <<>> THEN FloatZero
  ELSE RoundQuotient(BigDivSmall(f.m \o BigZeros(ExtraLimbs(d)), d),
                     f.x - ExtraLimbs(d) * LimbBits)

\* int(f): truncation of a non-negative float.
FloatTrunc(f) ==
  IF f.m = <<>> THEN 0
  ELSE IF f.x >= 0 THEN BigToNat(BigShiftLeft(f.m, f.x))
  ELSE BigToNat(BigShiftRight(f.m, 0 - f.x)[1])

\* f < g.
FloatLess(f, g) ==
  IF g.m = <<>> THEN FALSE
  ELSE IF f.m = <<>> THEN TRUE
  ELSE \/ f.x < g.x
       \/ /\ f.x = g.x
          /\ \E i \in 1..Len(f.m) :
               /\ f.m[i] < g.m[i]
               /\ \A j \in 1..(i - 1) : f.m[j] = g.m[j]

\* Python's min(f, g): the first argument unless the second is smaller.
FloatMin(f, g) == IF FloatLess(g, f) THEN g ELSE f

(***************************************************************************)
(* Format tables of ImageService.                                          *)
(***************************************************************************)
SUPPORTED_FORMATS ==
  [f \in {"png", "jpg", "jpeg", "bmp", "gif", "webp", "tiff", "tif", "avif",
          "heif", "heic", "ico", "jp2", "j2k", "tga", "qoi"} |->
     CASE f = "png" -> "PNG"
       [] f \in {"jpg", "jpeg"} -> "JPEG"
       [] f = "bmp" -> "BMP"
       [] f = "gif" -> "GIF"
       [] f = "webp" -> "WEBP"
       [] f \in {"tiff", "tif"} -> "TIFF"
       [] f = "avif" -> "AVIF"
       [] f \in {"heif", "heic"} -> "HEIF"
       [] f = "ico" -> "ICO"
       [] f \in {"jp2", "j2k"} -> "JPEG2000"
       [] f = "tga" -> "TGA"
       [] f = "qoi" -> "QOI"]

READ_ONLY_FORMATS == {"svg"}

QUALITY_FORMATS == {"jpg", "jpeg", "webp", "avif", "heif", "heic"}

no_alpha_formats == {"jpg", "jpeg", "bmp", "jp2", "j2k"}

\* The input check admitting only what can be written.
is_valid_input_format_writable_only(format_ext) == format_ext \in DOMAIN SUPPORTED_FORMATS

_is_valid_input_format(format_ext) ==
  format_ext \in DOMAIN SUPPORTED_FORMATS \/ format_ext \in READ_ONLY_FORMATS

\* The output check admitting what the input check admits.
is_valid_output_format_as_input(format_ext) ==
  format_ext \in DOMAIN SUPPORTED_FORMATS \/ format_ext \in READ_ONLY_FORMATS

_is_valid_output_format(format_ext) == format_ext \in DOMAIN SUPPORTED_FORMATS

\* str.lower().lstrip('.') on the format strings the requests carry.
LowerStrip(f) ==
  CASE f \in {"PNG", ".png", ".PNG"} -> "png"
    [] f \in {"JPG", ".jpg", ".JPG"} -> "jpg"
    [] f \in {"SVG", ".svg", ".SVG"} -> "svg"
    [] f \in {"WEBP", ".webp", ".WEBP"} -> "webp"
    [] f = ".exe" -> "exe"
    [] OTHER -> f

\* str.lower() on the flip directions the requests carry.
\* The text as it was written.
LowerUnchanged(d) == d

Lower(d) ==
  CASE d \in {"Horizontal", "HORIZONTAL"} -> "horizontal"
    [] d \in {"Vertical", "VERTICAL"} -> "vertical"
    [] d = "Diagonal" -> "diagonal"
    [] d = "PNG" -> "png"
    [] d \in {"JPG", "Jpg"} -> "jpg"
    [] d = "SVG" -> "svg"
    [] d = ".PNG" -> ".png"
    [] OTHER -> d

\* The exception handlers of the upload routes: ValueError is a 400, the rest 500.
HttpStatus(exc) == IF exc = "ValueError" THEN 400 ELSE 500

(***************************************************************************)
(* Geometry of the codec primitives and of the stages.                     *)
(***************************************************************************)
\* The remainder truncated toward zero, as C's % computes it.
normalized_angle_truncated(angle) ==
  IF angle < 0 THEN 0 - ((0 - angle) % 360) ELSE angle % 360

\* angle % 360 (Python: the result has the sign of the modulus).
normalized_angle(angle) == angle % 360

is_right_angle(angle) == normalized_angle(angle) \in {0, 90, 180, 270}

\* Image.transpose(ROTATE_90 / ROTATE_180 / ROTATE_270).
TransposeSize(size, n) ==
  IF n \in {90, 270} THEN <<size[2], size[1]>> ELSE size

\* Image.rotate(angle, expand=...) for an angle that is no multiple of 90:
\* the canvas is kept without expand; with expand it is the bounding box of the
\* rotated image, each side of which lies between the shorter side and the sum
\* of the sides.  The model draws each side from the two ends of that range.
FreeRotateSizes(size, expand) ==
  IF ~expand THEN {size}
  ELSE {<<a, b>> : a \in {Min(size[1], size[2]), size[1] + size[2]},
                   b \in {Min(size[1], size[2]), size[1] + size[2]}}

\* The sizes the rotate stage can produce.
RotateSizes(size, angle, expand) ==
  IF is_right_angle(angle) /\ normalized_angle(angle) # 0
    THEN {TransposeSize(size, normalized_angle(angle))}
  ELSE IF normalized_angle(angle) # 0 THEN FreeRotateSizes(size, expand)
  ELSE {size}

\* The codec call the rotate stage makes.
RotateCall(angle) ==
  IF is_right_angle(angle) /\ normalized_angle(angle) # 0 THEN "transpose"
  ELSE IF normalized_angle(angle) # 0 THEN "rotate"
  ELSE "none"

\* The crop box of the pipeline's crop stage: x2 = min(x + width, img_width).
CropBox(x, y, width, height, size) ==
  <<x, y, Min(x + width, size[1]), Min(y + height, size[2])>>

BoxSize(box) == <<box[3] - box[1], box[4] - box[2]>>

\* The start point tested with > where the code has >=.
crop_start_beyond(crop_x, crop_y, size) == crop_x > size[1] \/ crop_y > size[2]

\* Lines 1292-1295 (and 779-783): the crop's start point is outside the image.
crop_start_outside(crop_x, crop_y, size) == crop_x >= size[1] \/ crop_y >= size[2]

\* The crop box with only its right end clamped.
crop_box_width_only(x, y, width, height, size) ==
  <<x, y, IF x + width > size[1] THEN size[1] ELSE x + width, y + height>>

\* crop_image, lines 786-807: crop_box, each end clamped when it overshoots.
crop_box(x, y, width, height, size) ==
  <<x, y,
    IF x + width > size[1] THEN size[1] ELSE x + width,
    IF y + height > size[2] THEN size[2] ELSE y + height>>

\* crop_image, lines 790-804: one message per clamped axis, each carrying the
\* requested extent, the clamped extent and the overshoot.
adjustment_messages(x, y, width, height, size) ==
  (IF x + width > size[1]
     THEN <<[axis |-> "width", from |-> width, to |-> size[1] - x,
             over |-> x + width - size[1]]>>
     ELSE <<>>)
  \o (IF y + height > size[2]
        THEN <<[axis |-> "height", from |-> height, to |-> size[2] - y,
                over |-> y + height - size[2]]>>
        ELSE <<>>)

\* crop_image, lines 793 and 801: adjusted is set where a message is appended.
adjusted(x, y, width, height, size) ==
  x + width > size[1] \/ y + height > size[2]

\* A percentage as the caller wrote it, num/den, parsed to the nearest double.
ScaleFloat(s) == FloatDivInt(IntToFloat(s.num), s.den)

\* int(current * resize_scale / 100).
ScaleAxis(current, s) ==
  FloatTrunc(FloatDivInt(FloatMulInt(current, ScaleFloat(s)), 100))

\* int(current * (target / of)): one axis derived from the ratio target / of.
RatioAxis(current, target, of) ==
  FloatTrunc(FloatMulInt(current, FloatDivInt(IntToFloat(target), of)))

\* int(current * min(w / cw, h / ch)).
FitAxis(current, w, cw, h, ch) ==
  FloatTrunc(FloatMulInt(current,
    FloatMin(FloatDivInt(IntToFloat(w), cw), FloatDivInt(IntToFloat(h), ch))))

\* Lines 1330-1331: max(1, target_width), max(1, target_height).
AtLeastOnePixel(t) == <<Max(1, t[1]), Max(1, t[2])>>

\* target_width, target_height of the pipeline's resize stage.
PipelineResizeTarget(size, resize_width, resize_height, resize_scale, keep) ==
  AtLeastOnePixel(
    IF NotNone(resize_scale)
      THEN <<ScaleAxis(size[1], Val(resize_scale)), ScaleAxis(size[2], Val(resize_scale))>>
    ELSE IF TruthyInt(resize_width) /\ TruthyInt(resize_height)
      THEN IF keep
             THEN <<FitAxis(size[1], Val(resize_width), size[1], Val(resize_height), size[2]),
                    FitAxis(size[2], Val(resize_width), size[1], Val(resize_height), size[2])>>
             ELSE <<Val(resize_width), Val(resize_height)>>
    ELSE IF TruthyInt(resize_width)
      THEN <<Val(resize_width), RatioAxis(size[2], Val(resize_width), size[1])>>
    ELSE <<RatioAxis(size[1], Val(resize_height), size[2]), Val(resize_height)>>)

\* target_width, target_height of resize_image, lines 626-656.
ResizeImageTarget(size, width, height, scale, keep_aspect_ratio) ==
  AtLeastOnePixel(
    IF NotNone(scale)
      THEN <<ScaleAxis(size[1], Val(scale)), ScaleAxis(size[2], Val(scale))>>
    ELSE IF keep_aspect_ratio
      THEN IF NotNone(width) /\ NotNone(height)
             THEN <<FitAxis(size[1], Val(width), size[1], Val(height), size[2]),
                    FitAxis(size[2], Val(width), size[1], Val(height), size[2])>>
           ELSE IF NotNone(width)
             THEN <<Val(width), RatioAxis(size[2], Val(width), size[1])>>
           ELSE <<RatioAxis(size[1], Val(height), size[2]), Val(height)>>
    ELSE <<IF NotNone(width) THEN Val(width) ELSE size[1],
           IF NotNone(height) THEN Val(height) ELSE size[2]>>)

\* resize_image, lines 603-617: the argument checks, in order; each raises
\* ValueError.
ResizeArgsRejected(width, height, scale) ==
  \/ NotNone(scale) /\ (NotNone(width) \/ NotNone(height))
  \/ NotNone(scale) /\ Val(scale).num <= 0
  \/ NotNone(width) /\ Val(width) <= 0
  \/ NotNone(height) /\ Val(height) <= 0
  \/ IsNone(width) /\ IsNone(height) /\ IsNone(scale)

\* crop_image, lines 761-766: the argument checks; each raises ValueError.
CropArgsRejected(x, y, width, height) ==
  \/ x < 0 \/ y < 0
  \/ width <= 0 \/ height <= 0

\* The format conversion entry appended whatever the log holds.
operations_with_conversion(operations_applied, output_format) ==
  Append(operations_applied, [stage |-> "convert", text |-> output_format, nums |-> <<>>])

\* Lines 1340-1342: the log, or the format conversion entry when it is empty.
operations_or_default(operations_applied, output_format) ==
  IF operations_applied = <<>>
    THEN <<[stage |-> "convert", text |-> output_format, nums |-> <<>>]>>
    ELSE operations_applied

\* _save_image_to_bytes: the mode that reaches the encoder.
FlattenNeeded(mode, output_format) ==
  mode = "RGBA" /\ output_format \in no_alpha_formats

\* The pil_format handed to Image.save.
PilFormat(output_format) ==
  IF output_format \in DOMAIN SUPPORTED_FORMATS
    THEN SUPPORTED_FORMATS[output_format] ELSE "PNG"

\* save_kwargs['quality'].
SaveQuality(output_format, quality) ==
  IF output_format \in QUALITY_FORMATS THEN Some(quality) ELSE None

(***************************************************************************)
(* compress_image and its quality search.                                  *)
(*                                                                         *)
(* The encoder is outside the service: what it writes for a buffer at a    *)
(* quality is given by the image, as sizes = [shape, base, step], the      *)
(* number of bytes for each quality.                                       *)
(***************************************************************************)
Abs(n) == IF n < 0 THEN -n ELSE n

\* buffer.tell() after img.save(buffer, quality = quality), lines 539-547.
_get_image_size_at_quality(sizes, quality) ==
  CASE sizes.shape = "linear"  -> sizes.base + sizes.step * quality
    [] sizes.shape = "flat"    -> sizes.base
    [] sizes.shape = "cliff"   -> IF quality < 40 THEN sizes.base
                                  ELSE sizes.base + 40 * sizes.step
    [] sizes.shape = "falling" -> sizes.base + sizes.step * (96 - quality)
    [] sizes.shape = "ripple"  -> sizes.base + sizes.step * (quality % 7)

\* Lines 507-522: the binary search between min_quality and max_quality.
RECURSIVE binary_search(_, _, _, _, _, _)
binary_search(sizes, target_size_bytes, tolerance, min_quality, max_quality, best_quality) ==
  IF min_quality > max_quality THEN best_quality
  ELSE IF Abs(_get_image_size_at_quality(sizes, (min_quality + max_quality) \div 2)
              - target_size_bytes) <= tolerance
    THEN (min_quality + max_quality) \div 2
  ELSE IF _get_image_size_at_quality(sizes, (min_quality + max_quality) \div 2)
            > target_size_bytes
    THEN binary_search(sizes, target_size_bytes, tolerance, min_quality,
                       (min_quality + max_quality) \div 2 - 1, best_quality)
  ELSE binary_search(sizes, target_size_bytes, tolerance,
                     (min_quality + max_quality) \div 2 + 1, max_quality,
                     (min_quality + max_quality) \div 2)

\* The search with quality 0 as its lowest candidate.
find_optimal_quality_from_zero(sizes, output_format, target_size_bytes, tolerance) ==
  IF output_format \notin QUALITY_FORMATS THEN 95
  ELSE IF _get_image_size_at_quality(sizes, 95) <= target_size_bytes THEN 95
  ELSE binary_search(sizes, target_size_bytes, tolerance, 0, 95, 85)

\* The search confined to the upper half of the qualities.
find_optimal_quality_upper_half(sizes, output_format, target_size_bytes, tolerance) ==
  IF output_format \notin QUALITY_FORMATS THEN 95
  ELSE IF _get_image_size_at_quality(sizes, 95) <= target_size_bytes THEN 95
  ELSE binary_search(sizes, target_size_bytes, tolerance, 48, 95, 85)

\* The search with 95 as the quality it falls back on.
find_optimal_quality_fallback_95(sizes, output_format, target_size_bytes, tolerance) ==
  IF output_format \notin QUALITY_FORMATS THEN 95
  ELSE IF _get_image_size_at_quality(sizes, 95) <= target_size_bytes THEN 95
  ELSE binary_search(sizes, target_size_bytes, tolerance, 1, 95, 95)

\* Lines 493-522: 95 for a format without a quality setting or when quality 95
\* fits, the search otherwise, with best_quality starting at 85.
_find_optimal_quality(sizes, output_format, target_size_bytes, tolerance) ==
  IF output_format \notin QUALITY_FORMATS THEN 95
  ELSE IF _get_image_size_at_quality(sizes, 95) <= target_size_bytes THEN 95
  ELSE binary_search(sizes, target_size_bytes, tolerance, 1, 95, 85)

\* Lines 433-442: the quality the file is saved with.
final_quality(sizes, output_format, target_size_kb, quality) ==
  IF NotNone(target_size_kb)
    THEN _find_optimal_quality(sizes, output_format, Val(target_size_kb) * 1024, 1024)
    ELSE quality

\* os.path.getsize(output_path): quality reaches the encoder only for the
\* formats of QUALITY_FORMATS (lines 445-450).
output_file_size(sizes, output_format, quality) ==
  IF output_format \in QUALITY_FORMATS
    THEN _get_image_size_at_quality(sizes, quality)
    ELSE sizes.base

\* Line 428: whether the buffer is shrunk to max_dimension.
thumbnail_needed(size, max_dimension) ==
  /\ NotNone(max_dimension)
  /\ Val(max_dimension) # 0
  /\ (size[1] > Val(max_dimension) \/ size[2] > Val(max_dimension))

\* img.thumbnail((max_dimension, max_dimension)): the longer side becomes
\* max_dimension; the library rounds the other side down or up, to 1 at least.
ThumbnailSizes(size, max_dimension) ==
  IF size[1] >= size[2]
    THEN {<<max_dimension, Max(h, 1)>> :
            h \in {(size[2] * max_dimension) \div size[1],
                   (size[2] * max_dimension + size[1] - 1) \div size[1]}}
    ELSE {<<Max(w, 1), max_dimension>> :
            w \in {(size[1] * max_dimension) \div size[2],
                   (size[1] * max_dimension + size[2] - 1) \div size[2]}}

(***************************************************************************)
(* The upload validators of the router. Uploaded data is a sequence of     *)
(* bytes (0..255); a format tag is a string.                               *)
(***************************************************************************)
\* data.startswith(prefix)
startswith(data, prefix) ==
  Len(data) >= Len(prefix) /\ SubSeq(data, 1, Len(prefix)) = prefix

\* data[lo:hi]
Slice(data, lo, hi) == SubSeq(data, lo + 1, Min(hi, Len(data)))

\* data.lstrip(): leading ASCII whitespace removed.
RECURSIVE lstrip(_)
lstrip(data) ==
  IF data # <<>> /\ Head(data) \in {9, 10, 11, 12, 13, 32}
    THEN lstrip(Tail(data)) ELSE data

\* data.lower(): ASCII capitals to small letters.
lower(data) ==
  [i \in 1..Len(data) |-> IF data[i] \in 65..90 THEN data[i] + 32 ELSE data[i]]

\* Line 31-43, in the order of the dict.
MAGIC_BYTES ==
  << [magic |-> <<137, 80, 78, 71, 13, 10, 26, 10>>, fmt |-> "png"],
     [magic |-> <<255, 216, 255>>,                   fmt |-> "jpg"],
     [magic |-> <<71, 73, 70, 56, 55, 97>>,          fmt |-> "gif"],
     [magic |-> <<71, 73, 70, 56, 57, 97>>,          fmt |-> "gif"],
     [magic |-> <<66, 77>>,                          fmt |-> "bmp"],
     [magic |-> <<82, 73, 70, 70>>,                  fmt |-> "webp"],
     [magic |-> <<73, 73, 42, 0>>,                   fmt |-> "tiff"],
     [magic |-> <<77, 77, 0, 42>>,                   fmt |-> "tiff"],
     [magic |-> <<0, 0, 1, 0>>,                      fmt |-> "ico"],
     [magic |-> <<0, 0, 2, 0>>,                      fmt |-> "ico"],
     [magic |-> <<113, 111, 105, 102>>,              fmt |-> "qoi"] >>

\* b'<?xml', b'<svg', b'<!DOCTYPE svg'
SVG_SIGNATURES ==
  << <<60, 63, 120, 109, 108>>,
     <<60, 115, 118, 103>>,
     <<60, 33, 68, 79, 67, 84, 89, 80, 69, 32, 115, 118, 103>> >>

ALLOWED_EXTENSIONS ==
  {"png", "jpg", "jpeg", "gif", "bmp", "webp", "tiff", "tif", "avif", "heic",
   "heif", "ico", "jp2", "j2k", "tga", "qoi", "svg"}

SUPPORTED_OUTPUT_FORMATS ==
  {"png", "jpg", "jpeg", "gif", "bmp", "webp", "tiff", "tif", "avif", "heic",
   "heif", "ico", "jp2", "j2k", "tga", "qoi"}

FORMAT_TO_MIME(fmt) ==
  CASE fmt = "png" -> "image/png"
    [] fmt \in {"jpg", "jpeg"} -> "image/jpeg"
    [] fmt = "gif" -> "image/gif"
    [] fmt = "bmp" -> "image/bmp"
    [] fmt = "webp" -> "image/webp"
    [] fmt \in {"tiff", "tif"} -> "image/tiff"
    [] fmt = "avif" -> "image/avif"
    [] fmt = "heic" -> "image/heic"
    [] fmt = "heif" -> "image/heif"
    [] fmt = "ico" -> "image/x-icon"
    [] fmt \in {"jp2", "j2k"} -> "image/jp2"
    [] fmt = "tga" -> "image/x-tga"
    [] fmt = "qoi" -> "image/x-qoi"
    [] OTHER -> "application/octet-stream"

\* Lines 93-96: some signature starts the data once whitespace is stripped.
svg_signature_matches(data) ==
  \E i \in 1..Len(SVG_SIGNATURES) :
    startswith(lower(Slice(lstrip(data), 0, Len(SVG_SIGNATURES[i]))),
               lower(SVG_SIGNATURES[i]))

\* The loop of lines 99-106 from entry i on: the tag returned, None when the
\* loop ends without returning.
RECURSIVE magic_loop(_, _)
magic_loop(data, i) ==
  IF i > Len(MAGIC_BYTES) THEN None
  ELSE IF ~startswith(data, MAGIC_BYTES[i].magic) THEN magic_loop(data, i + 1)
  ELSE IF MAGIC_BYTES[i].magic = <<82, 73, 70, 70>> /\ Len(data) >= 12
    THEN IF Slice(data, 8, 12) = <<87, 69, 66, 80>>
           THEN Some("webp") ELSE magic_loop(data, i + 1)
  ELSE Some(MAGIC_BYTES[i].fmt)

\* Lines 108-114: the brand of an ftyp box.
ftyp_format(data) ==
  IF Len(data) >= 12 /\ Slice(data, 4, 8) = <<102, 116, 121, 112>>
    THEN IF Slice(data, 8, 12) \in {<<97, 118, 105, 102>>, <<97, 118, 105, 115>>}
           THEN Some("avif")
         ELSE IF Slice(data, 8, 12) \in {<<104, 101, 105, 99>>, <<104, 101, 105, 120>>,
                                         <<104, 101, 118, 99>>, <<109, 105, 102, 49>>}
           THEN Some("heic")
         ELSE None
    ELSE None

\* detect_format_from_magic_bytes: the tag, or None.
detect_format_from_magic_bytes(data) ==
  IF svg_signature_matches(data) THEN Some("svg")
  ELSE IF NotNone(magic_loop(data, 1)) THEN magic_loop(data, 1)
  ELSE IF NotNone(ftyp_format(data)) THEN ftyp_format(data)
  ELSE IF startswith(data, <<0, 0, 0, 12, 106, 80, 32, 32, 13, 10, 135, 10>>)
    THEN Some("jp2")
  ELSE None

\* Path(filename).suffix.lower().lstrip('.') if filename else '' (line 141):
\* the text after the last dot of the name, unless the name starts or ends
\* with that dot.
suffix_ext(filename) ==
  CASE filename \in {"", "photo", ".png", "photo."} -> ""
    [] filename \in {"photo.png", "photo.PNG", "archive.tar.png"} -> "png"
    [] filename = "photo.jpeg" -> "jpeg"
    [] filename = "photo.webp" -> "webp"
    [] filename = "photo.ico" -> "ico"
    [] filename \in {"photo.tga", "photo.TGA"} -> "tga"
    [] filename = "photo.heic" -> "heic"
    [] filename = "photo.heif" -> "heif"
    [] filename = "photo.avif" -> "avif"
    [] filename = "photo.svg" -> "svg"
    [] filename = "photo.exe" -> "exe"
    [] filename = "photo.png.exe" -> "exe"

\* The validator returning the extension whenever it is tga.
validate_image_file_tga_first(data, filename) ==
  IF suffix_ext(filename) # "" /\ suffix_ext(filename) \notin ALLOWED_EXTENSIONS
    THEN None
  ELSE IF suffix_ext(filename) = "tga" THEN Some("tga")
  ELSE IF IsNone(detect_format_from_magic_bytes(data))
    THEN IF suffix_ext(filename) \in ALLOWED_EXTENSIONS
           THEN Some(suffix_ext(filename)) ELSE None
  ELSE detect_format_from_magic_bytes(data)

\* The validator returning the extension on a mismatch under heif, heic or avif.
validate_image_file_iso_extension(data, filename) ==
  IF suffix_ext(filename) # "" /\ suffix_ext(filename) \notin ALLOWED_EXTENSIONS
    THEN None
  ELSE IF IsNone(detect_format_from_magic_bytes(data))
    THEN IF suffix_ext(filename) \in ALLOWED_EXTENSIONS
           THEN Some(suffix_ext(filename)) ELSE None
  ELSE IF suffix_ext(filename) \in {"heif", "heic", "avif"}
    THEN Some(suffix_ext(filename))
  ELSE detect_format_from_magic_bytes(data)

\* validate_image_file, lines 140-172: the resolved tag, None for the
\* HTTPException with status 415. The branch of lines 165-170 only passes.
validate_image_file(data, filename) ==
  IF suffix_ext(filename) # "" /\ suffix_ext(filename) \notin ALLOWED_EXTENSIONS
    THEN None
  ELSE IF IsNone(detect_format_from_magic_bytes(data)) /\ suffix_ext(filename) \in {"tga"}
    THEN Some(suffix_ext(filename))
  ELSE IF IsNone(detect_format_from_magic_bytes(data))
    THEN IF suffix_ext(filename) \in ALLOWED_EXTENSIONS
           THEN Some(suffix_ext(filename)) ELSE None
  ELSE detect_format_from_magic_bytes(data)

\* validate_output_format, lines 186-189: whether it raises the HTTPException
\* with status 400.
output_format_rejected(output_format) ==
  TruthyStr(output_format) /\ Lower(Val(output_format)) \notin SUPPORTED_OUTPUT_FORMATS

(***************************************************************************)
(* Bounds of the model.                                                     *)
(***************************************************************************)
MaxDim == 2
MaxCrop == 2
MaxSide == 3
MaxCalls == 2
MaxFill == 4
MaxProbes == 10
MaxRequests == 5

(***************************************************************************)
(* State.                                                                  *)
(*   pc        where the running call is                                   *)
(*   req       the arguments of the running call                           *)
(*   loc       its local variables (normalised formats, original_size)     *)
(*   img       the buffer it holds: [size, mode], or None before decode    *)
(*   ops       operations_applied                                          *)
(*   hist      the codec calls made so far, in order                       *)
(*   res       what the call returned or raised, None while it runs        *)
(*   finished  the calls completed before this one                         *)
(***************************************************************************)
VARIABLES pc, req, loc, img, ops, hist, res, finished

vars == <<pc, req, loc, img, ops, hist, res, finished>>

\* The statements with the crop moved ahead of the rotation.
StageAfterCropFirst(stage) ==
  CASE stage = "validate" -> "open"
    [] stage = "open" -> "crop"
    [] stage = "crop" -> "rotate"
    [] stage = "rotate" -> "flip"
    [] stage = "flip" -> "resize"
    [] stage = "resize" -> "save"
    [] stage = "save" -> "returned"

\* The statements of process_image_bytes, in program order.
StageAfter(stage) ==
  CASE stage = "validate" -> "open"
    [] stage = "open" -> "rotate"
    [] stage = "rotate" -> "flip"
    [] stage = "flip" -> "crop"
    [] stage = "crop" -> "resize"
    [] stage = "resize" -> "save"
    [] stage = "save" -> "returned"

Entry(stage, text, nums) == [stage |-> stage, text |-> text, nums |-> nums]

Codec(stage, call, before, after) ==
  [stage |-> stage, call |-> call, before |-> before, after |-> after]

\* The call ends by raising exc from the statement group `at`.
Raised(exc, at) ==
  /\ pc' = "raised"
  /\ res' = Some([raised |-> exc, at |-> at])

Init ==
  /\ pc = "idle"
  /\ req = None
  /\ loc = None
  /\ img = None
  /\ ops = <<>>
  /\ hist = <<>>
  /\ res = None
  /\ finished = <<>>

\* A caller invokes a function of the service with arguments drawn from requests.
Call(requests) ==
  /\ pc = "idle"
  /\ \E r \in requests :
       /\ pc' = "validate"
       /\ req' = r
  /\ UNCHANGED <<loc, img, ops, hist, res, finished>>

\* process_image_bytes, lines 1218-1235: formats are normalised and validated.
ValidateFormats ==
  /\ pc = "validate"
  /\ req.fn = "process_image_bytes"
  /\ LET input_format  == LowerStrip(req.input_format)
         output_format == IF TruthyStr(req.output_format)
                            THEN LowerStrip(Val(req.output_format))
                          ELSE IF input_format = "svg" THEN "png"
                          ELSE input_format
     IN  IF ~_is_valid_input_format(input_format)
           THEN Raised("ValueError", "validate") /\ UNCHANGED loc
         ELSE IF ~_is_valid_output_format(output_format)
           THEN Raised("ValueError", "validate") /\ UNCHANGED loc
         ELSE /\ pc' = StageAfter("validate")
              /\ loc' = [input_format |-> input_format,
                         output_format |-> output_format,
                         original_size |-> None]
              /\ UNCHANGED res
  /\ UNCHANGED <<req, img, ops, hist, finished>>

\* What opening the input does: _open_image raises ValueError for an svg
\* without cairosvg, the decoder raises on bytes it cannot read.
OpenOutcome(input_format, image, svg_supported) ==
  IF input_format = "svg" /\ ~svg_supported THEN "ValueError"
  ELSE IF image.corrupt THEN "Exception"
  ELSE "ok"

\* Lines 1237-1240 and _open_image_from_bytes: the bytes are decoded.
OpenImage ==
  /\ pc = "open"
  /\ IF OpenOutcome(loc.input_format, req.image, req.SVG_SUPPORTED) # "ok"
       THEN /\ Raised(OpenOutcome(loc.input_format, req.image, req.SVG_SUPPORTED), "open")
            /\ UNCHANGED <<loc, img, hist>>
     ELSE /\ pc' = StageAfter("open")
          /\ img' = [size |-> req.image.size, mode |-> req.image.mode]
          /\ loc' = [loc EXCEPT !.original_size = Some(req.image.size)]
          /\ hist' = Append(hist, Codec("decode", "decode", req.image.size, req.image.size))
          /\ UNCHANGED res
  /\ UNCHANGED <<req, ops, finished>>

\* Lines 1242-1271: the rotate stage.
RotateStage ==
  /\ pc = "rotate"
  /\ pc' = StageAfter("rotate")
  /\ IF IsNone(req.rotate_angle)
       THEN UNCHANGED <<img, ops, hist>>
     ELSE \E size \in RotateSizes(img.size, Val(req.rotate_angle), req.rotate_expand) :
            /\ img' = [img EXCEPT !.size = size]
            /\ ops' = Append(ops, Entry("rotate", "rotate", <<Val(req.rotate_angle)>>))
            /\ hist' = Append(hist, Codec("rotate", RotateCall(Val(req.rotate_angle)),
                                          img.size, size))
  /\ UNCHANGED <<req, loc, res, finished>>

\* Lines 1273-1285: the flip stage.
FlipStage ==
  /\ pc = "flip"
  /\ IF ~TruthyStr(req.flip_direction)
       THEN pc' = StageAfter("flip") /\ UNCHANGED <<img, ops, hist, res>>
     ELSE LET flip_direction == Lower(Val(req.flip_direction))
          IN  IF flip_direction \notin {"horizontal", "vertical"}
                THEN Raised("ValueError", "flip") /\ UNCHANGED <<img, ops, hist>>
              ELSE /\ pc' = StageAfter("flip")
                   /\ img' = img
                   /\ ops' = Append(ops, Entry("flip", flip_direction, <<>>))
                   /\ hist' = Append(hist, Codec("flip", flip_direction, img.size, img.size))
                   /\ UNCHANGED res
  /\ UNCHANGED <<req, loc, finished>>

\* Lines 1287-1304: the crop stage.
CropStage ==
  /\ pc = "crop"
  /\ IF \E v \in {req.crop_x, req.crop_y, req.crop_width, req.crop_height} : IsNone(v)
       THEN pc' = StageAfter("crop") /\ UNCHANGED <<img, ops, hist, res>>
     ELSE LET crop_x == Val(req.crop_x)
              crop_y == Val(req.crop_y)
              box    == CropBox(crop_x, crop_y, Val(req.crop_width),
                                Val(req.crop_height), img.size)
          IN  IF crop_start_outside(crop_x, crop_y, img.size)
                THEN Raised("ValueError", "crop") /\ UNCHANGED <<img, ops, hist>>
              ELSE IF box[3] <= crop_x \/ box[4] <= crop_y
                \* An empty or inverted box reaches img.crop (line 1300); the
                \* codec refuses it there or leaves an empty buffer that no
                \* encoder writes, and line 1362 passes either error on.
                THEN /\ hist' = Append(hist, Codec("crop", "crop", img.size, BoxSize(box)))
                     /\ \E exc \in {"ValueError", "Exception"} : Raised(exc, "crop")
                     /\ UNCHANGED <<img, ops>>
              ELSE /\ pc' = StageAfter("crop")
                   /\ img' = [img EXCEPT !.size = BoxSize(box)]
                   /\ ops' = Append(ops, Entry("crop", "crop",
                                <<crop_x, crop_y, box[3] - crop_x, box[4] - crop_y>>))
                   /\ hist' = Append(hist, Codec("crop", "crop", img.size, BoxSize(box)))
                   /\ UNCHANGED res
  /\ UNCHANGED <<req, loc, finished>>

\* Lines 1306-1338: the resize stage.
ResizeStage ==
  /\ pc = "resize"
  /\ pc' = StageAfter("resize")
  /\ IF ~(TruthyInt(req.resize_width) \/ TruthyInt(req.resize_height)
            \/ TruthyScale(req.resize_scale))
       THEN UNCHANGED <<img, ops, hist>>
     ELSE /\ img' = [img EXCEPT !.size =
                   PipelineResizeTarget(img.size, req.resize_width, req.resize_height,
                                        req.resize_scale, req.resize_keep_ratio)]
          /\ ops' = Append(ops,
               IF TruthyScale(req.resize_scale)
                 THEN Entry("resize", "scale",
                            <<Val(req.resize_scale).num, Val(req.resize_scale).den>>)
                 ELSE Entry("resize", "size", img'.size))
          /\ hist' = Append(hist, Codec("resize", "resize", img.size, img'.size))
  /\ UNCHANGED <<req, loc, res, finished>>

\* The flatten and encode calls the save makes on a buffer.
SaveCalls(mode, size, output_format) ==
  (IF FlattenNeeded(mode, output_format)
     THEN <<Codec("flatten", "composite", size, size)>>
     ELSE <<>>)
  \o <<Codec("encode", PilFormat(output_format), size, size)>>

\* The mode that reaches the encoder.
SavedMode(mode, output_format) ==
  IF FlattenNeeded(mode, output_format) THEN "RGB" ELSE mode

\* Lines 1340-1364 and _save_image_to_bytes: the default log entry, the alpha
\* flattening, the encode (which the codec may fail) and the returned dict.
SaveImage ==
  /\ pc = "save"
  /\ ops' = operations_or_default(ops, loc.output_format)
  /\ hist' = hist \o SaveCalls(img.mode, img.size, loc.output_format)
  /\ \E encoded \in BOOLEAN :
       IF encoded
         THEN /\ pc' = StageAfter("save")
              /\ res' = Some([success |-> TRUE,
                              original_size |-> Val(loc.original_size),
                              output_size |-> img.size,
                              operations_applied |-> ops',
                              output_format |-> loc.output_format,
                              output_mode |-> SavedMode(img.mode, loc.output_format),
                              quality |-> SaveQuality(loc.output_format, req.quality)])
         ELSE Raised("Exception", "save")
  /\ UNCHANGED <<req, loc, img, finished>>

\* resize_image, lines 589-705, as one call on a file.
resize_image ==
  /\ pc = "validate"
  /\ req.fn = "resize_image"
  /\ LET input_format  == LowerStrip(req.input_format)
         output_format == LowerStrip(req.output_format)
     IN  IF ~req.exists
           THEN Raised("FileNotFoundError", "validate") /\ UNCHANGED <<img, hist>>
         ELSE IF ~_is_valid_input_format(input_format)
                   \/ ~_is_valid_output_format(output_format)
                   \/ ResizeArgsRejected(req.width, req.height, req.scale)
           THEN Raised("ValueError", "validate") /\ UNCHANGED <<img, hist>>
         ELSE IF OpenOutcome(input_format, req.image, req.SVG_SUPPORTED) # "ok"
           THEN /\ Raised(OpenOutcome(input_format, req.image, req.SVG_SUPPORTED), "open")
                /\ UNCHANGED <<img, hist>>
         ELSE /\ img' = [size |-> ResizeImageTarget(req.image.size, req.width, req.height,
                                                    req.scale, req.keep_aspect_ratio),
                         mode |-> req.image.mode]
              /\ hist' = <<Codec("decode", "decode", req.image.size, req.image.size),
                           Codec("resize", "resize", req.image.size, img'.size)>>
                         \o SaveCalls(req.image.mode, img'.size, output_format)
              /\ \E encoded \in BOOLEAN :
                   IF encoded
                     THEN /\ pc' = "returned"
                          /\ res' = Some([success |-> TRUE,
                                          original_size |-> req.image.size,
                                          output_size |-> img'.size,
                                          output_mode |-> SavedMode(req.image.mode, output_format),
                                          keep_aspect_ratio |-> req.keep_aspect_ratio])
                     ELSE Raised("Exception", "save")
  /\ UNCHANGED <<req, loc, ops, finished>>

\* crop_image, lines 747-852, as one call on a file.
crop_image ==
  /\ pc = "validate"
  /\ req.fn = "crop_image"
  /\ LET input_format  == LowerStrip(req.input_format)
         output_format == LowerStrip(req.output_format)
         box           == crop_box(req.x, req.y, req.width, req.height, req.image.size)
     IN  IF ~req.exists
           THEN Raised("FileNotFoundError", "validate") /\ UNCHANGED <<img, hist>>
         ELSE IF ~_is_valid_input_format(input_format)
                   \/ ~_is_valid_output_format(output_format)
                   \/ CropArgsRejected(req.x, req.y, req.width, req.height)
           THEN Raised("ValueError", "validate") /\ UNCHANGED <<img, hist>>
         ELSE IF OpenOutcome(input_format, req.image, req.SVG_SUPPORTED) # "ok"
           THEN /\ Raised(OpenOutcome(input_format, req.image, req.SVG_SUPPORTED), "open")
                /\ UNCHANGED <<img, hist>>
         ELSE IF crop_start_outside(req.x, req.y, req.image.size)
           THEN /\ Raised("ValueError", "crop")
                /\ img' = None
                /\ hist' = <<Codec("decode", "decode", req.image.size, req.image.size)>>
         ELSE /\ img' = [size |-> BoxSize(box), mode |-> req.image.mode]
              /\ hist' = <<Codec("decode", "decode", req.image.size, req.image.size),
                           Codec("crop", "crop", req.image.size, BoxSize(box))>>
                         \o SaveCalls(req.image.mode, BoxSize(box), output_format)
              /\ \E encoded \in BOOLEAN :
                   IF encoded
                     THEN /\ pc' = "returned"
                          /\ res' = Some([success |-> TRUE,
                                          original_size |-> req.image.size,
                                          crop_box |-> box,
                                          output_size |-> BoxSize(box),
                                          output_mode |-> SavedMode(req.image.mode, output_format),
                                          adjusted |-> adjusted(req.x, req.y, req.width,
                                                                req.height, req.image.size),
                                          adjustment_messages |->
                                            adjustment_messages(req.x, req.y, req.width,
                                                                req.height, req.image.size)])
                     ELSE Raised("Exception", "save")
  /\ UNCHANGED <<req, loc, ops, finished>>

\* convert_format, lines 140-202, as one call on a file. Whatever is raised
\* from opening the file on leaves as a plain Exception (lines 201-202).
convert_format ==
  /\ pc = "validate"
  /\ req.fn = "convert_format"
  /\ LET input_format  == LowerStrip(req.input_format)
         output_format == LowerStrip(req.output_format)
     IN  IF ~req.exists
           THEN Raised("FileNotFoundError", "validate") /\ UNCHANGED <<img, hist>>
         ELSE IF ~_is_valid_input_format(input_format)
                   \/ ~_is_valid_output_format(output_format)
           THEN Raised("ValueError", "validate") /\ UNCHANGED <<img, hist>>
         ELSE IF OpenOutcome(input_format, req.image, req.SVG_SUPPORTED) # "ok"
           THEN Raised("Exception", "open") /\ UNCHANGED <<img, hist>>
         ELSE /\ img' = [size |-> req.image.size,
                         mode |-> SavedMode(req.image.mode, output_format)]
              /\ hist' = <<Codec("decode", "decode", req.image.size, req.image.size)>>
                         \o SaveCalls(req.image.mode, req.image.size, output_format)
              /\ \E encoded \in BOOLEAN :
                   IF encoded
                     THEN /\ pc' = "returned"
                          /\ res' = Some([success |-> TRUE,
                                          output_size |-> req.image.size,
                                          output_mode |-> SavedMode(req.image.mode,
                                                                    output_format),
                                          quality |-> SaveQuality(output_format, req.quality)])
                     ELSE Raised("Exception", "save")
  /\ UNCHANGED <<req, loc, ops, finished>>

\* rotate_image, lines 890-981, as one call on a file.
rotate_image ==
  /\ pc = "validate"
  /\ req.fn = "rotate_image"
  /\ LET input_format  == LowerStrip(req.input_format)
         output_format == LowerStrip(req.output_format)
     IN  IF ~req.exists
           THEN Raised("FileNotFoundError", "validate") /\ UNCHANGED <<img, hist>>
         ELSE IF ~_is_valid_input_format(input_format)
                   \/ ~_is_valid_output_format(output_format)
           THEN Raised("ValueError", "validate") /\ UNCHANGED <<img, hist>>
         ELSE IF OpenOutcome(input_format, req.image, req.SVG_SUPPORTED) # "ok"
           THEN /\ Raised(OpenOutcome(input_format, req.image, req.SVG_SUPPORTED), "open")
                /\ UNCHANGED <<img, hist>>
         ELSE \E size \in RotateSizes(req.image.size, req.angle, req.expand) :
                /\ img' = [size |-> size,
                           mode |-> SavedMode(req.image.mode, output_format)]
                /\ hist' = <<Codec("decode", "decode", req.image.size, req.image.size),
                             Codec("rotate", RotateCall(req.angle), req.image.size, size)>>
                           \o SaveCalls(req.image.mode, size, output_format)
                /\ \E encoded \in BOOLEAN :
                     IF encoded
                       THEN /\ pc' = "returned"
                            /\ res' = Some([success |-> TRUE,
                                            original_size |-> req.image.size,
                                            output_size |-> size,
                                            output_mode |-> SavedMode(req.image.mode,
                                                                      output_format),
                                            angle |-> req.angle,
                                            expanded |-> req.expand
                                                           /\ ~is_right_angle(req.angle)])
                       ELSE Raised("Exception", "save")
  /\ UNCHANGED <<req, loc, ops, finished>>

\* flip_image, lines 1015-1081, as one call on a file: the direction is
\* checked before the formats.
flip_image ==
  /\ pc = "validate"
  /\ req.fn = "flip_image"
  /\ LET input_format  == LowerStrip(req.input_format)
         output_format == LowerStrip(req.output_format)
         direction     == Lower(req.direction)
     IN  IF ~req.exists
           THEN Raised("FileNotFoundError", "validate") /\ UNCHANGED <<img, hist>>
         ELSE IF direction \notin {"horizontal", "vertical"}
                   \/ ~_is_valid_input_format(input_format)
                   \/ ~_is_valid_output_format(output_format)
           THEN Raised("ValueError", "validate") /\ UNCHANGED <<img, hist>>
         ELSE IF OpenOutcome(input_format, req.image, req.SVG_SUPPORTED) # "ok"
           THEN /\ Raised(OpenOutcome(input_format, req.image, req.SVG_SUPPORTED), "open")
                /\ UNCHANGED <<img, hist>>
         ELSE /\ img' = [size |-> req.image.size,
                         mode |-> SavedMode(req.image.mode, output_format)]
              /\ hist' = <<Codec("decode", "decode", req.image.size, req.image.size),
                           Codec("flip", direction, req.image.size, req.image.size)>>
                         \o SaveCalls(req.image.mode, req.image.size, output_format)
              /\ \E encoded \in BOOLEAN :
                   IF encoded
                     THEN /\ pc' = "returned"
                          /\ res' = Some([success |-> TRUE,
                                          original_size |-> req.image.size,
                                          output_size |-> req.image.size,
                                          output_mode |-> SavedMode(req.image.mode,
                                                                    output_format),
                                          direction |-> direction])
                     ELSE Raised("Exception", "save")
  /\ UNCHANGED <<req, loc, ops, finished>>

\* Lines 452-469: the dict compress_image returns; size_reduction is the
\* quotient num / den.
compress_result(request, final_dimensions, mode, quality, output_size) ==
  [success |-> TRUE,
   input_size |-> request.input_size,
   output_size |-> output_size,
   size_reduction |-> [num |-> (request.input_size - output_size) * 100,
                       den |-> request.input_size],
   final_quality |-> quality,
   resized |-> thumbnail_needed(request.image.size, request.max_dimension),
   original_dimensions |-> request.image.size,
   final_dimensions |-> final_dimensions,
   output_mode |-> mode]

\* compress_image, lines 397-472, as one call on a file. Whatever is raised
\* after the file is opened leaves as a plain Exception (lines 471-472).
compress_image ==
  /\ pc = "validate"
  /\ req.fn = "compress_image"
  /\ LET input_format  == LowerStrip(req.input_format)
         output_format == LowerStrip(req.output_format)
     IN  IF ~req.exists
           THEN Raised("FileNotFoundError", "validate") /\ UNCHANGED <<img, hist>>
         ELSE IF input_format \notin DOMAIN SUPPORTED_FORMATS
                   \/ output_format \notin DOMAIN SUPPORTED_FORMATS
           THEN Raised("ValueError", "validate") /\ UNCHANGED <<img, hist>>
         ELSE IF req.image.corrupt
           THEN Raised("Exception", "open") /\ UNCHANGED <<img, hist>>
         ELSE \E size \in (IF thumbnail_needed(req.image.size, req.max_dimension)
                             THEN ThumbnailSizes(req.image.size, Val(req.max_dimension))
                             ELSE {req.image.size}) :
                /\ img' = [size |-> size,
                           mode |-> SavedMode(req.image.mode, output_format)]
                /\ hist' = <<Codec("decode", "decode", req.image.size, req.image.size)>>
                           \o (IF FlattenNeeded(req.image.mode, output_format)
                                 THEN <<Codec("flatten", "composite",
                                              req.image.size, req.image.size)>>
                                 ELSE <<>>)
                           \o (IF thumbnail_needed(req.image.size, req.max_dimension)
                                 THEN <<Codec("resize", "thumbnail", req.image.size, size)>>
                                 ELSE <<>>)
                           \o <<Codec("encode", PilFormat(output_format), size, size)>>
                /\ \E encoded \in BOOLEAN :
                     IF encoded
                       THEN /\ pc' = "returned"
                            /\ res' = Some(compress_result(
                                 req, size, SavedMode(req.image.mode, output_format),
                                 final_quality(req.sizes, output_format,
                                               req.target_size_kb, req.quality),
                                 output_file_size(req.sizes, output_format,
                                   final_quality(req.sizes, output_format,
                                                 req.target_size_kb, req.quality))))
                       ELSE Raised("Exception", "save")
  /\ UNCHANGED <<req, loc, ops, finished>>

\* _find_optimal_quality, lines 474-522, called on its own.
find_optimal_quality ==
  /\ pc = "validate"
  /\ req.fn = "_find_optimal_quality"
  /\ pc' = "returned"
  /\ res' = Some([quality |-> _find_optimal_quality(req.sizes, req.output_format,
                                                    req.target_size_bytes, req.tolerance)])
  /\ UNCHANGED <<req, loc, img, ops, hist, finished>>

\* One call of _get_image_size_at_quality, as the codec history records it.
Probe(quality, bytes) ==
  [stage |-> "probe", call |-> "encode", quality |-> quality, bytes |-> bytes]

\* The loop that keeps mid_quality as the upper end when the probe is too big.
narrowed_keeping_mid(sizes, target_size_bytes, min_quality, max_quality, best_quality) ==
  IF _get_image_size_at_quality(sizes, (min_quality + max_quality) \div 2) > target_size_bytes
    THEN [min_quality |-> min_quality,
          max_quality |-> (min_quality + max_quality) \div 2,
          best_quality |-> best_quality]
  ELSE [min_quality |-> (min_quality + max_quality) \div 2 + 1,
        max_quality |-> max_quality,
        best_quality |-> (min_quality + max_quality) \div 2]

\* Lines 516-520: min_quality, max_quality and best_quality after a probe at
\* mid_quality that is not within the tolerance.
narrowed(sizes, target_size_bytes, min_quality, max_quality, best_quality) ==
  IF _get_image_size_at_quality(sizes, (min_quality + max_quality) \div 2) > target_size_bytes
    THEN [min_quality |-> min_quality,
          max_quality |-> (min_quality + max_quality) \div 2 - 1,
          best_quality |-> best_quality]
  ELSE [min_quality |-> (min_quality + max_quality) \div 2 + 1,
        max_quality |-> max_quality,
        best_quality |-> (min_quality + max_quality) \div 2]

\* _find_optimal_quality statement by statement. Lines 493-505: the format
\* test, the probe at quality 95 and the initial bounds of the search.
find_optimal_quality_probe ==
  /\ pc = "validate"
  /\ req.fn = "_find_optimal_quality"
  /\ IF req.output_format \notin QUALITY_FORMATS
       THEN /\ pc' = "returned"
            /\ res' = Some([quality |-> 95])
            /\ UNCHANGED <<loc, hist>>
     ELSE /\ hist' = <<Probe(95, _get_image_size_at_quality(req.sizes, 95))>>
          /\ IF _get_image_size_at_quality(req.sizes, 95) <= req.target_size_bytes
               THEN /\ pc' = "returned"
                    /\ res' = Some([quality |-> 95])
                    /\ UNCHANGED loc
             ELSE /\ pc' = "search"
                  /\ loc' = [min_quality |-> 1, max_quality |-> 95, best_quality |-> 85]
                  /\ UNCHANGED res
  /\ UNCHANGED <<req, img, ops, finished>>

\* Lines 507-522: the loop test and one pass of the loop, or the return of
\* best_quality when the bounds have crossed.
find_optimal_quality_loop ==
  /\ pc = "search"
  /\ Len(hist) < MaxProbes
  /\ IF loc.min_quality > loc.max_quality
       THEN /\ pc' = "returned"
            /\ res' = Some([quality |-> loc.best_quality])
            /\ UNCHANGED <<loc, hist>>
     ELSE LET mid_quality == (loc.min_quality + loc.max_quality) \div 2
          IN  /\ hist' = Append(hist, Probe(mid_quality,
                             _get_image_size_at_quality(req.sizes, mid_quality)))
              /\ IF Abs(_get_image_size_at_quality(req.sizes, mid_quality)
                        - req.target_size_bytes) <= req.tolerance
                   THEN /\ pc' = "returned"
                        /\ res' = Some([quality |-> mid_quality])
                        /\ UNCHANGED loc
                 ELSE /\ loc' = narrowed(req.sizes, req.target_size_bytes,
                                         loc.min_quality, loc.max_quality,
                                         loc.best_quality)
                      /\ UNCHANGED <<pc, res>>
  /\ UNCHANGED <<req, img, ops, finished>>

\* glob.glob(pattern) for a pattern with * or ?, os.path.exists(pattern) for
\* any other (lines 285-293): the paths one pattern contributes, on a disk
\* that holds the files of paths.
matched_files(pattern, paths) ==
  CASE pattern = "*"     -> paths
    [] pattern = "*.png" -> paths \cap {"photo.png", "archive.tar.png"}
    [] pattern = "photo.???" -> paths \cap {"photo.png", "photo.PNG", "photo.svg", "photo.exe"}
    [] OTHER -> paths \cap {pattern}

\* Path(input_file).stem (line 325).
stem(path) == IF path = "archive.tar.png" THEN "archive.tar" ELSE "photo"

\* The loop that leaves the remaining files alone once a conversion failed.
batch_counted_until_failure(state, input_file, output_file, result) ==
  IF result.success
    THEN [state EXCEPT
            !.valid_files = @ \ {input_file},
            !.success_count = @ + 1,
            !.total_input_size = @ + result.input_size,
            !.total_output_size = @ + result.output_size,
            !.results = Append(@, [input_file |-> input_file, output_file |-> output_file,
                                   success |-> TRUE, result |-> result])]
  ELSE [state EXCEPT
          !.valid_files = {},
          !.fail_count = @ + 1,
          !.results = Append(@, [input_file |-> input_file, output_file |-> output_file,
                                 success |-> FALSE, error |-> result.error])]

\* Lines 328-350: the counters and the result list after convert_format
\* returned result, or raised (success FALSE), for input_file.
batch_counted(state, input_file, output_file, result) ==
  IF result.success
    THEN [state EXCEPT
            !.valid_files = @ \ {input_file},
            !.success_count = @ + 1,
            !.total_input_size = @ + result.input_size,
            !.total_output_size = @ + result.output_size,
            !.results = Append(@, [input_file |-> input_file, output_file |-> output_file,
                                   success |-> TRUE, result |-> result])]
  ELSE [state EXCEPT
          !.valid_files = @ \ {input_file},
          !.fail_count = @ + 1,
          !.results = Append(@, [input_file |-> input_file, output_file |-> output_file,
                                 success |-> FALSE, error |-> result.error])]

\* Lines 352-365: the summary; the reduction is the fraction num/den of the
\* input bytes, 0.0 when nothing was read.
batch_summary(state) ==
  [success_count |-> state.success_count,
   fail_count |-> state.fail_count,
   total |-> state.total,
   results |-> state.results,
   total_input_size |-> state.total_input_size,
   total_output_size |-> state.total_output_size,
   total_size_reduction |->
     IF state.total_input_size > 0
       THEN [num |-> (state.total_input_size - state.total_output_size) * 100,
             den |-> state.total_input_size]
       ELSE [num |-> 0, den |-> 1]]

\* batch_convert_format, lines 275-321: the target format is checked, the
\* output directory made, the patterns expanded, list(set(...)) keeps each
\* path once, and the paths with a supported suffix are kept. valid_files is
\* a list in the order the set happened to have; the loop below takes its
\* files in any order.
batch_convert_format ==
  /\ pc = "validate"
  /\ req.fn = "batch_convert_format"
  /\ LET target_format == LowerStrip(req.target_format)
         input_files   == UNION {matched_files(req.input_patterns[i], DOMAIN req.disk) :
                                   i \in 1..Len(req.input_patterns)}
         valid_files   == {file_path \in input_files :
                             suffix_ext(file_path) \in DOMAIN SUPPORTED_FORMATS}
         started       == [target_format |-> target_format, valid_files |-> valid_files,
                           total |-> Cardinality(valid_files), results |-> <<>>,
                           success_count |-> 0, fail_count |-> 0,
                           total_input_size |-> 0, total_output_size |-> 0]
     IN  IF target_format \notin DOMAIN SUPPORTED_FORMATS
           THEN Raised("ValueError", "validate") /\ UNCHANGED loc
         ELSE \E made \in BOOLEAN :
                IF ~made
                  THEN Raised("OSError", "mkdir") /\ UNCHANGED loc
                ELSE IF valid_files = {}
                  THEN /\ pc' = "returned"
                       /\ res' = Some(batch_summary(started))
                       /\ UNCHANGED loc
                ELSE /\ pc' = "batch"
                     /\ loc' = started
                     /\ UNCHANGED res
  /\ UNCHANGED <<req, img, ops, hist, finished>>

\* batch_convert_format, lines 323-365: one pass of the loop over valid_files,
\* or the return once the list is used up. convert_format (lines 140-202) on
\* a file with a supported suffix and a supported target raises when the file
\* cannot be decoded or the encoder fails, and otherwise returns the sizes of
\* the two files.
batch_convert_file ==
  /\ pc = "batch"
  /\ IF loc.valid_files = {}
       THEN /\ pc' = "returned"
            /\ res' = Some(batch_summary(loc))
            /\ UNCHANGED loc
     ELSE \E input_file \in loc.valid_files : \E encoded \in BOOLEAN :
            /\ loc' = batch_counted(
                        loc, input_file, <<stem(input_file), loc.target_format>>,
                        IF req.disk[input_file].corrupt \/ ~encoded
                          THEN [success |-> FALSE, error |-> "Exception"]
                          ELSE [success |-> TRUE,
                                input_size |-> req.disk[input_file].input_size,
                                output_size |-> req.disk[input_file].output_size])
            /\ UNCHANGED <<pc, res>>
  /\ UNCHANGED <<req, img, ops, hist, finished>>

\* The route answers with an HTTP status; a 200 carries the headers of lines
\* 296-306.
Responded(response) ==
  /\ pc' = "responded"
  /\ res' = Some(response)

\* upload_and_process, lines 249-260 and the call of lines 266-283: the upload
\* is read and validated, then process_image_bytes is entered with the
\* resolved input format. loc keeps ext and detected_format of
\* validate_image_file.
upload_and_process ==
  /\ pc = "validate"
  /\ req.fn = "upload_and_process"
  /\ \E read \in BOOLEAN :
       IF ~read
         THEN Responded([status |-> 500, at |-> "read"]) /\ UNCHANGED <<req, loc>>
       ELSE IF Len(req.data) = 0
         THEN Responded([status |-> 400, at |-> "empty"]) /\ UNCHANGED <<req, loc>>
       ELSE /\ loc' = [ext |-> suffix_ext(req.filename),
                       detected_format |-> detect_format_from_magic_bytes(req.data)]
            /\ IF IsNone(validate_image_file(req.data, req.filename))
                 THEN Responded([status |-> 415, at |-> "validate_image_file"])
                      /\ UNCHANGED req
               ELSE IF output_format_rejected(req.output_format)
                 THEN Responded([status |-> 400, at |-> "validate_output_format"])
                      /\ UNCHANGED req
               ELSE /\ req' = [req EXCEPT
                                 !.fn = "process_image_bytes",
                                 !.input_format =
                                   Val(validate_image_file(req.data, req.filename))]
                    /\ pc' = "validate"
                    /\ UNCHANGED res
  /\ UNCHANGED <<img, ops, hist, finished>>

\* upload_and_process, lines 285-315: the result becomes the response, a
\* ValueError status 400, any other exception status 500.
Respond ==
  /\ pc \in {"returned", "raised"}
  /\ "filename" \in DOMAIN req
  /\ IF pc = "returned"
       THEN Responded([status |-> 200,
                       media_type |-> FORMAT_TO_MIME(Val(res).output_format),
                       original_size |-> Val(res).original_size,
                       output_size |-> Val(res).output_size,
                       operations_count |-> Len(Val(res).operations_applied)])
       ELSE Responded([status |-> HttpStatus(Val(res).raised), at |-> Val(res).at])
  /\ UNCHANGED <<req, loc, img, ops, hist, finished>>

\* The caller feeds the image a call returned into a further call.
Resubmit(requests) ==
  /\ pc = "returned"
  /\ Len(finished) + 1 < MaxCalls
  /\ \E r \in requests :
       req' = [r EXCEPT !.image = [size |-> Val(res).output_size,
                                   mode |-> Val(res).output_mode,
                                   corrupt |-> FALSE]]
  /\ finished' = Append(finished, [req |-> req, res |-> Val(res)])
  /\ pc' = "validate"
  /\ loc' = None
  /\ img' = None
  /\ ops' = <<>>
  /\ hist' = <<>>
  /\ res' = None

(***************************************************************************)
(* The requests the model draws from.                                      *)
(***************************************************************************)
Image(size, mode) == [size |-> size, mode |-> mode, corrupt |-> FALSE]

\* The percentage num/den, as the caller wrote it (18.4 is Pct(184, 10)).
Pct(num, den) == [num |-> num, den |-> den]

ProcessRequest(image, input_format, output_format, rotate, flip, crop, resize) ==
  [fn |-> "process_image_bytes",
   image |-> image,
   input_format |-> input_format,
   output_format |-> output_format,
   quality |-> 95,
   rotate_angle |-> rotate[1],
   rotate_expand |-> rotate[2],
   flip_direction |-> flip,
   crop_x |-> crop[1],
   crop_y |-> crop[2],
   crop_width |-> crop[3],
   crop_height |-> crop[4],
   resize_width |-> resize[1],
   resize_height |-> resize[2],
   resize_scale |-> resize[3],
   resize_keep_ratio |-> resize[4],
   SVG_SUPPORTED |-> TRUE]

ResizeImageRequest(image, width, height, scale, keep_aspect_ratio) ==
  [fn |-> "resize_image", image |-> image, exists |-> TRUE,
   input_format |-> ".png", output_format |-> ".png",
   width |-> width, height |-> height, scale |-> scale,
   keep_aspect_ratio |-> keep_aspect_ratio, quality |-> 95, SVG_SUPPORTED |-> TRUE]

CropImageRequest(image, x, y, width, height) ==
  [fn |-> "crop_image", image |-> image, exists |-> TRUE,
   input_format |-> ".png", output_format |-> ".png",
   x |-> x, y |-> y, width |-> width, height |-> height,
   quality |-> 95, SVG_SUPPORTED |-> TRUE]

NoRotate == <<None, TRUE>>
NoCrop == <<None, None, None, None>>
NoResize == <<None, None, None, TRUE>>

GeoSizes == {<<w, h>> : w \in 1..MaxDim, h \in 1..MaxDim} \cup {<<200, 150>>}

RotateArgs ==
  {NoRotate, <<Some(0), TRUE>>, <<Some(90), TRUE>>, <<Some(180), FALSE>>,
   <<Some(270), TRUE>>, <<Some(-90), FALSE>>, <<Some(45), TRUE>>}

FlipArgs == {None, Some("horizontal"), Some("Vertical"), Some("diagonal")}

CropArgs ==
  {NoCrop, <<Some(0), None, Some(1), Some(1)>>}
    \cup {<<Some(x), Some(y), Some(wh[1]), Some(wh[2])>> :
            x \in 0..MaxCrop, y \in 0..1,
            wh \in {<<1, 1>>, <<1, 200>>, <<200, 200>>}}

\* batch_convert_format on a directory: what is on the disk (some files cannot
\* be decoded), the patterns and the target format.
BatchRequests ==
  LET paths    == {"photo.png", "photo.PNG", "photo.jpeg", "archive.tar.png",
                   "photo.svg", "photo.exe", "photo"}
      patterns == {"*", "*.png", "photo.???", "photo.png", "photo.jpeg", "missing.png"}
  IN  {[fn |-> "batch_convert_format",
        disk |-> [path \in paths |->
                    [corrupt |-> path \in corrupt,
                     input_size |-> IF path = "photo.png" THEN 3000 ELSE 500,
                     output_size |-> IF path = "photo.jpeg" THEN 900 ELSE 400]],
        input_patterns |-> input_patterns,
        target_format |-> target_format,
        quality |-> 95] :
         corrupt \in SUBSET {"photo.png", "photo.jpeg"},
         input_patterns \in {<<>>} \cup {<<a>> : a \in patterns}
                            \cup {<<a, b>> : a \in patterns, b \in patterns},
         target_format \in {"jpg", ".PNG", "svg", "exe"}}

\* process_image_bytes called on the service itself, where the crop fields are
\* four independent optional integers of either sign (lines 1168-1171).
CropFields == {None, Some(-1), Some(0), Some(1), Some(2)}

CropServiceRequests ==
  {ProcessRequest(Image(<<2, 1>>, "RGB"), "png", None, rotate, None,
                  <<crop_x, crop_y, crop_width, crop_height>>, NoResize) :
     crop_x \in CropFields, crop_y \in CropFields,
     crop_width \in CropFields, crop_height \in CropFields,
     rotate \in {NoRotate, <<Some(90), TRUE>>}}

ResizeArgs ==
  {NoResize,
   <<None, None, Some(Pct(50, 1)), TRUE>>,
   <<None, None, Some(Pct(150, 1)), TRUE>>,
   <<Some(MaxSide), None, Some(Pct(50, 1)), TRUE>>,
   <<Some(MaxSide), None, None, TRUE>>,
   <<None, Some(MaxSide), None, FALSE>>,
   <<Some(MaxSide), Some(1), None, TRUE>>,
   <<Some(MaxSide), Some(1), None, FALSE>>}

\* Every combination of the four stages on an opaque png.
GeometryRequests ==
  {ProcessRequest(Image(size, "RGB"), "png", None, rotate, flip, crop, resize) :
     size \in GeoSizes, rotate \in RotateArgs, flip \in FlipArgs,
     crop \in CropArgs, resize \in ResizeArgs}

\* Formats, buffer modes and unreadable inputs.
Modes == {"RGB", "RGBA", "LA"}

InputFormats == {"png", ".PNG", "svg", "exe"}

OutputFormats ==
  {None, Some(""), Some("exe"), Some("svg"), Some("JPG")}
    \cup {Some(f) : f \in {"png", "jpg", "jpeg", "bmp", "jp2", "j2k", "webp", "gif"}}

FormatRequests ==
  {[ProcessRequest([size |-> <<2, 1>>, mode |-> mode, corrupt |-> corrupt],
                   input_format, output_format, rotate, None, NoCrop, NoResize)
      EXCEPT !.SVG_SUPPORTED = svg_supported] :
     mode \in Modes, corrupt \in BOOLEAN, input_format \in InputFormats,
     output_format \in OutputFormats, rotate \in {NoRotate, <<Some(45), FALSE>>},
     svg_supported \in BOOLEAN}

\* Sizes and targets whose ratios are not exact in binary floating point.
RatioSizes ==
  {<<3, 4>>, <<11, 11>>, <<1, 11>>, <<375, 125>>, <<800, 600>>, <<1920, 1080>>}

RatioTargets ==
  {<<Some(w), None, None>> : w \in {2, 15, 400}}
    \cup {<<None, Some(15), None>>}
    \cup {<<Some(wh[1]), Some(wh[2]), None>> :
            wh \in {<<2, 15>>, <<400, 300>>, <<490, 490>>}}
    \cup {<<None, None, Some(p)>> :
            p \in {Pct(50, 1), Pct(1, 1), Pct(184, 10), Pct(24, 10)}}

RatioRequests ==
  {ProcessRequest(Image(size, "RGB"), "png", None, NoRotate, None, NoCrop,
                  <<t[1], t[2], t[3], keep>>) :
     size \in RatioSizes, t \in RatioTargets, keep \in BOOLEAN}

\* resize_image: the same targets, and the argument combinations it rejects.
ResizeImageRequests ==
  {ResizeImageRequest(Image(size, mode), t[1], t[2], t[3], keep) :
     size \in RatioSizes \cup {<<MaxDim, 1>>}, mode \in {"RGB"},
     t \in RatioTargets \cup {<<None, None, None>>, <<Some(0), None, None>>,
                              <<None, Some(-1), None>>,
                              <<Some(MaxSide), None, Some(Pct(50, 1))>>,
                              <<None, Some(MaxSide), Some(Pct(50, 1))>>,
                              <<None, None, Some(Pct(0, 1))>>},
     keep \in BOOLEAN}
    \cup {[ResizeImageRequest([size |-> <<2, 1>>, mode |-> mode, corrupt |-> corrupt],
                              Some(MaxSide), None, None, TRUE)
             EXCEPT !.exists = exists, !.input_format = input_format,
                    !.output_format = output_format] :
            mode \in Modes, corrupt \in BOOLEAN, exists \in BOOLEAN,
            input_format \in {".png", ".svg", ".exe"},
            output_format \in {".png", ".JPG", ".svg"}}

\* crop_image on small images and on the 100x100 image of its tests.
CropImageRequests ==
  {CropImageRequest(Image(size, "RGB"), x, y, wh[1], wh[2]) :
     size \in {<<w, h>> : w \in 1..MaxDim, h \in 1..MaxDim} \cup {<<100, 100>>},
     x \in {-1, 10, 100} \cup (0..MaxCrop), y \in {-1, 0, 1, 10, 100},
     wh \in {<<0, 1>>, <<1, -1>>, <<1, 1>>, <<1, 200>>, <<200, 1>>, <<200, 200>>,
             <<90, 90>>}}
    \cup {[CropImageRequest([size |-> <<2, 1>>, mode |-> mode, corrupt |-> corrupt],
                            0, 0, MaxCrop, MaxCrop)
             EXCEPT !.exists = exists, !.input_format = input_format,
                    !.output_format = output_format] :
            mode \in Modes, corrupt \in BOOLEAN, exists \in BOOLEAN,
            input_format \in {".png", ".svg", ".exe"},
            output_format \in {".png", ".JPG", ".svg"}}

CompressRequest(image, sizes, output_format, target_size_kb, max_dimension) ==
  [fn |-> "compress_image", image |-> image, sizes |-> sizes, exists |-> TRUE,
   input_format |-> ".png", output_format |-> output_format, input_size |-> 40000,
   quality |-> 85, target_size_kb |-> target_size_kb, max_dimension |-> max_dimension]

\* What the encoder writes at each quality: growing with the quality, constant,
\* jumping at one quality, or not ordered by the quality at all.
EncodedSizes ==
  {[shape |-> shape, base |-> base, step |-> step] :
     shape \in {"linear", "flat", "cliff", "falling", "ripple"},
     base \in {500, 30000}, step \in {100, 1000}}

\* compress_image: byte budgets from none to one that every quality fits, and
\* the size limits with the files it rejects.
CompressRequests ==
  {CompressRequest(Image(<<2, 1>>, "RGB"), sizes, output_format, target_size_kb, None) :
     sizes \in EncodedSizes, output_format \in {".jpg", ".webp", ".png"},
     target_size_kb \in {None} \cup {Some(kb) : kb \in {0, 1, 5, 20, 50, 200}}}
    \cup {[CompressRequest([size |-> size, mode |-> mode, corrupt |-> corrupt],
                           [shape |-> "linear", base |-> 500, step |-> 100],
                           output_format, None, max_dimension)
             EXCEPT !.exists = exists, !.input_format = input_format] :
            size \in {<<2, 1>>, <<1, 11>>, <<200, 150>>}, mode \in {"RGB", "RGBA"},
            corrupt \in BOOLEAN, exists \in BOOLEAN,
            input_format \in {".png", ".svg"},
            output_format \in {".png", ".JPG", ".svg"},
            max_dimension \in {None, Some(0), Some(1), Some(MaxSide), Some(200)}}

\* _find_optimal_quality with each tolerance.
FindQualityRequests ==
  {[fn |-> "_find_optimal_quality", sizes |-> sizes, output_format |-> output_format,
    target_size_bytes |-> target_size_bytes, tolerance |-> tolerance] :
     sizes \in EncodedSizes, output_format \in {"jpg", "png"},
     target_size_bytes \in {0, 1024, 20480, 30150, 51200, 204800},
     tolerance \in {0, 1024, 50000}}

\* convert_format, rotate_image and flip_image on files of each kind.
FileRequests ==
  {[fn |-> fn, image |-> [size |-> <<MaxDim, 1>>, mode |-> mode, corrupt |-> corrupt],
    exists |-> exists, input_format |-> input_format, output_format |-> output_format,
    quality |-> 95, SVG_SUPPORTED |-> svg_supported,
    angle |-> angle, expand |-> TRUE, direction |-> direction] :
     fn \in {"convert_format", "rotate_image", "flip_image"},
     mode \in {"RGB", "RGBA"}, corrupt \in BOOLEAN, exists \in BOOLEAN,
     input_format \in {".png", ".svg", ".exe"},
     output_format \in {".png", ".JPG", ".svg", ".exe"},
     svg_supported \in BOOLEAN, angle \in {0, 90, 45},
     direction \in {"horizontal", "Vertical", "HORIZONTAL", "diagonal", ""}}

\* An upload: the bytes and the name of the file, the picture the bytes hold,
\* and the form fields.
UploadRequest(data, filename, image, output_format, rotate, flip, crop, resize) ==
  [fn |-> "upload_and_process", data |-> data, filename |-> filename]
    @@ ProcessRequest(image, "", output_format, rotate, flip, crop, resize)

\* n bytes that belong to no signature.
Fill(n) == [i \in 1..n |-> 0]

\* RIFF containers: the prefix, up to MaxFill bytes, and a form type or nothing.
RiffData ==
  {<<82, 73, 70, 70>> \o Fill(n) \o form :
     n \in 0..MaxFill, form \in {<<>>, <<87, 69, 66, 80>>, <<87, 65, 86, 69>>}}

\* ISO media files: a box of type ftyp (or not) with each brand.
FtypData ==
  {<<0, 0, 0, 24>> \o box \o brand :
     box \in {<<102, 116, 121, 112>>, <<109, 111, 111, 118>>},
     brand \in {<<>>, <<97, 118, 105, 102>>, <<97, 118, 105, 115>>, <<104, 101, 105, 99>>,
                <<104, 101, 105, 120>>, <<104, 101, 118, 99>>, <<109, 105, 102, 49>>,
                <<105, 115, 111, 109>>}}

\* The other signatures, TGA headers (image type 2 and 10), text and noise.
PlainData ==
  {<<>>, <<1, 2, 3>>,
   <<137, 80, 78, 71, 13, 10, 26, 10, 0, 0, 0, 13>>, <<137, 80, 78, 71>>,
   <<255, 216, 255, 224>>, <<71, 73, 70, 56, 55, 97>>, <<71, 73, 70, 56, 57, 97, 1, 0>>,
   <<66, 77, 70, 0>>, <<73, 73, 42, 0, 8>>, <<77, 77, 0, 42, 0>>,
   <<0, 0, 1, 0, 1, 0>>, <<0, 0, 2, 0, 0, 0, 0, 0, 0, 0, 0, 0>>,
   <<0, 0, 10, 0, 0, 0, 0, 0, 0, 0, 0, 0>>, <<113, 111, 105, 102, 0>>,
   <<0, 0, 0, 12, 106, 80, 32, 32, 13, 10, 135, 10>>,
   <<60, 115, 118, 103, 62>>, <<32, 10, 60, 63, 88, 77, 76, 32>>,
   <<60, 33, 100, 111, 99, 116, 121, 112, 101, 32, 83, 86, 71, 62>>,
   <<60, 104, 116, 109, 108, 62>>}

Filenames ==
  {"", "photo", ".png", "photo.", "photo.png", "photo.PNG", "archive.tar.png",
   "photo.jpeg", "photo.webp", "photo.ico", "photo.tga", "photo.TGA", "photo.heic",
   "photo.heif", "photo.avif", "photo.svg", "photo.exe", "photo.png.exe"}

\* Uploads of every kind of data under every name, and uploads of one PNG with
\* each output format and with transforms.
UploadRequests ==
  {UploadRequest(data, filename, Image(<<2, 1>>, "RGB"), None,
                 NoRotate, None, NoCrop, NoResize) :
     data \in RiffData \cup FtypData \cup PlainData, filename \in Filenames}
    \cup {UploadRequest(<<137, 80, 78, 71, 13, 10, 26, 10, 0, 0, 0, 13>>, filename,
                        [size |-> <<2, 1>>, mode |-> "RGBA", corrupt |-> corrupt],
                        output_format, NoRotate, None, NoCrop, NoResize) :
            filename \in {"photo.png", "photo.svg", "photo.exe"}, corrupt \in BOOLEAN,
            output_format \in OutputFormats \cup {Some("PNG"), Some(".png"), Some("SVG")}}
    \cup {UploadRequest(<<255, 216, 255, 224>>, "photo.jpeg", Image(<<MaxDim, 1>>, "RGB"),
                        Some("png"), rotate, flip, crop, resize) :
            rotate \in {NoRotate, <<Some(90), TRUE>>},
            flip \in {None, Some("Horizontal"), Some("vertical"), Some("diagonal")},
            crop \in {NoCrop, <<Some(0), Some(0), Some(1), Some(1)>>,
                      <<Some(MaxDim), Some(0), Some(1), Some(1)>>},
            resize \in {NoResize, <<Some(MaxSide), None, None, TRUE>>}}

Requests ==
  GeometryRequests \cup FormatRequests \cup RatioRequests
    \cup ResizeImageRequests \cup CropImageRequests

\* Rotations only, for calls fed with the image the previous call returned.
ChainAngles == {0, 90, 180, 270, -90, -270, 450, 45}

ChainRequests ==
  {ProcessRequest(Image(size, "RGB"), "png", None, <<Some(a), e>>, None, NoCrop, NoResize) :
     size \in GeoSizes, a \in ChainAngles, e \in BOOLEAN}

Next ==
  \/ Call(Requests)
  \/ ValidateFormats
  \/ OpenImage
  \/ RotateStage
  \/ FlipStage
  \/ CropStage
  \/ ResizeStage
  \/ SaveImage
  \/ resize_image
  \/ crop_image

Spec == Init /\ [][Next]_vars

\* Every entry point: the operations on files, the quality search, the
\* pipeline called directly and through the upload route.
NextService ==
  \/ Call(FormatRequests)
  \/ Call(ResizeImageRequests)
  \/ Call(CropImageRequests)
  \/ Call(FileRequests)
  \/ Call(CompressRequests)
  \/ Call(FindQualityRequests)
  \/ Call(UploadRequests) \/ Call(CropServiceRequests)
  \/ ValidateFormats
  \/ OpenImage
  \/ RotateStage
  \/ FlipStage
  \/ CropStage
  \/ ResizeStage
  \/ SaveImage
  \/ resize_image
  \/ crop_image
  \/ convert_format
  \/ rotate_image
  \/ flip_image
  \/ compress_image
  \/ find_optimal_quality
  \/ upload_and_process
  \/ Respond

SpecService == Init /\ [][NextService]_vars

(***************************************************************************)
(* The upload route under concurrent requests. The variables hold one      *)
(* entry per request: pc[id] where request id is, req[id] its form fields, *)
(* loc[id] the pool worker that runs it (0 for none), res[id] its result   *)
(* and hist[id] the statement groups run for it. img and ops hold, per     *)
(* stack frame, the locals img and operations_applied of                   *)
(* process_image_bytes, img tagged with the request that wrote it.         *)
(***************************************************************************)
\* ThreadPoolExecutor(max_workers=4), images.py line 28.
max_workers == 4

\* Requests are numbered in the order in which the event loop receives them.
PoolIds == 1..MaxRequests

\* The form fields of request id: three kinds of request, given in turn.
PoolRequest(id) ==
  CASE id % 3 = 1 -> ProcessRequest(Image(<<2, 1>>, "RGBA"), "png", Some("jpg"),
                                    <<Some(90), TRUE>>, None, NoCrop, NoResize)
    [] id % 3 = 2 -> ProcessRequest(Image(<<2, 2>>, "RGB"), "png", None, NoRotate,
                                    Some("Horizontal"),
                                    <<Some(1), Some(0), Some(5), Some(1)>>, NoResize)
    [] OTHER      -> ProcessRequest(Image(<<3, 1>>, "RGB"), "png", None,
                                    <<Some(180), TRUE>>, Some("diagonal"), NoCrop,
                                    NoResize)

\* The locals of every invocation kept in one place.
frame_shared(id) == 1

\* img and operations_applied are locals of the invocation of
\* process_image_bytes (lines 1234-1239), called on an ImageService made for
\* the request (images.py line 263): one frame per request.
frame(id) == id

\* One statement group of process_image_bytes as a function of the request and
\* the locals: validation and decode (lines 1218-1239), rotate (1242-1271),
\* flip (1273-1285), crop (1287-1304), resize (1306-1338, not asked for by the
\* requests of PoolRequest) and save (1340-1359). The codec is taken to decode
\* and encode what it is given.
stage_result(stage, request, buffer, operations_applied) ==
  LET kept(b, o) == [raised |-> None, buffer |-> b, operations_applied |-> o]
      raise(exc) == [raised |-> Some(exc), buffer |-> buffer,
                     operations_applied |-> operations_applied]
      input_format  == LowerStrip(request.input_format)
      output_format == IF TruthyStr(request.output_format)
                         THEN LowerStrip(Val(request.output_format))
                       ELSE IF input_format = "svg" THEN "png"
                       ELSE input_format
  IN  CASE stage = "validate" ->
             IF ~_is_valid_input_format(input_format)
                  \/ ~_is_valid_output_format(output_format)
               THEN raise("ValueError")
             ELSE kept(buffer, <<>>)
        [] stage = "open" ->
             IF OpenOutcome(input_format, request.image, request.SVG_SUPPORTED) # "ok"
               THEN raise(OpenOutcome(input_format, request.image, request.SVG_SUPPORTED))
             ELSE kept(Some([size |-> request.image.size, mode |-> request.image.mode,
                             original_size |-> request.image.size]),
                       operations_applied)
        [] stage = "rotate" ->
             IF IsNone(request.rotate_angle) THEN kept(buffer, operations_applied)
             ELSE kept(Some([Val(buffer) EXCEPT
                               !.size = CHOOSE size \in
                                          RotateSizes(Val(buffer).size,
                                                      Val(request.rotate_angle),
                                                      request.rotate_expand) : TRUE]),
                       Append(operations_applied,
                              Entry("rotate", "rotate", <<Val(request.rotate_angle)>>)))
        [] stage = "flip" ->
             IF ~TruthyStr(request.flip_direction) THEN kept(buffer, operations_applied)
             ELSE IF Lower(Val(request.flip_direction)) \notin {"horizontal", "vertical"}
               THEN raise("ValueError")
             ELSE kept(buffer,
                       Append(operations_applied,
                              Entry("flip", Lower(Val(request.flip_direction)), <<>>)))
        [] stage = "crop" ->
             IF \E v \in {request.crop_x, request.crop_y, request.crop_width,
                           request.crop_height} : IsNone(v)
               THEN kept(buffer, operations_applied)
             ELSE IF crop_start_outside(Val(request.crop_x), Val(request.crop_y),
                                        Val(buffer).size)
               THEN raise("ValueError")
             ELSE kept(Some([Val(buffer) EXCEPT
                               !.size = BoxSize(CropBox(Val(request.crop_x),
                                                        Val(request.crop_y),
                                                        Val(request.crop_width),
                                                        Val(request.crop_height),
                                                        Val(buffer).size))]),
                       Append(operations_applied,
                              Entry("crop", "crop",
                                    <<Val(request.crop_x), Val(request.crop_y)>>
                                      \o BoxSize(CropBox(Val(request.crop_x),
                                                         Val(request.crop_y),
                                                         Val(request.crop_width),
                                                         Val(request.crop_height),
                                                         Val(buffer).size)))))
        [] stage = "resize" -> kept(buffer, operations_applied)
        [] stage = "save" ->
             kept(Some([Val(buffer) EXCEPT !.mode = SavedMode(@, output_format)]),
                  operations_or_default(operations_applied, output_format))

\* The dict of lines 1349-1358, from the locals after the save.
pipeline_result(request, buffer, operations_applied) ==
  [success |-> TRUE,
   original_size |-> Val(buffer).original_size,
   output_size |-> Val(buffer).size,
   output_mode |-> Val(buffer).mode,
   operations_applied |-> operations_applied]

InitPool ==
  /\ pc = [id \in PoolIds |-> "idle"]
  /\ req = [id \in PoolIds |-> PoolRequest(id)]
  /\ loc = [id \in PoolIds |-> 0]
  /\ img = [f \in PoolIds |-> [owner |-> 0, buffer |-> None]]
  /\ ops = [f \in PoolIds |-> <<>>]
  /\ hist = [id \in PoolIds |-> <<>>]
  /\ res = [id \in PoolIds |-> None]
  /\ finished = <<>>

\* upload_and_process, images.py lines 249-284: the upload is read and
\* validated on the event loop and the call of process_image_bytes is handed
\* to the executor, where it waits in the queue.
submit ==
  \E id \in PoolIds :
    /\ pc[id] = "idle"
    /\ \A earlier \in 1..(id - 1) : pc[earlier] # "idle"
    /\ pc' = [pc EXCEPT ![id] = "queued"]
    /\ UNCHANGED <<req, loc, img, ops, hist, res, finished>>

\* A worker thread of the executor that has nothing to run takes the item at
\* the head of the queue; the executor has max_workers threads. The threads
\* are interchangeable: the free one with the lowest number is the one named.
run_in_executor ==
  \E id \in PoolIds : \E worker \in 1..max_workers :
    /\ pc[id] = "queued"
    /\ \A earlier \in 1..(id - 1) : pc[earlier] # "queued"
    /\ \A other \in PoolIds : loc[other] # worker
    /\ \A busy \in 1..(worker - 1) : \E other \in PoolIds : loc[other] = busy
    /\ pc' = [pc EXCEPT ![id] = "validate"]
    /\ loc' = [loc EXCEPT ![id] = worker]
    /\ UNCHANGED <<req, img, ops, hist, res, finished>>

\* The worker that took request id runs its next statement group on the
\* locals of its frame; a raise or the return ends the work item and leaves
\* the worker free.
process_image_bytes ==
  \E id \in PoolIds :
    /\ pc[id] \in {"validate", "open", "rotate", "flip", "crop", "resize", "save"}
    /\ LET out == stage_result(pc[id], req[id], img[frame(id)].buffer, ops[frame(id)])
       IN  /\ hist' = [hist EXCEPT ![id] = Append(@, pc[id])]
           /\ IF NotNone(out.raised)
                THEN /\ pc' = [pc EXCEPT ![id] = "raised"]
                     /\ res' = [res EXCEPT ![id] = Some([raised |-> Val(out.raised),
                                                         at |-> pc[id]])]
                     /\ loc' = [loc EXCEPT ![id] = 0]
                     /\ UNCHANGED <<img, ops>>
              ELSE /\ img' = [img EXCEPT ![frame(id)] = [owner |-> id, buffer |-> out.buffer]]
                   /\ ops' = [ops EXCEPT ![frame(id)] = out.operations_applied]
                   /\ IF pc[id] = "save"
                        THEN /\ pc' = [pc EXCEPT ![id] = "returned"]
                             /\ res' = [res EXCEPT ![id] =
                                          Some(pipeline_result(req[id], out.buffer,
                                                               out.operations_applied))]
                             /\ loc' = [loc EXCEPT ![id] = 0]
                      ELSE /\ pc' = [pc EXCEPT ![id] = StageAfter(pc[id])]
                           /\ UNCHANGED <<res, loc>>
    /\ UNCHANGED <<req, finished>>

NextPool ==
  \/ submit
  \/ run_in_executor
  \/ process_image_bytes

SpecPool == InitPool /\ [][NextPool]_vars

\* batch_convert_format on its own.
NextBatch ==
  \/ Call(BatchRequests)
  \/ batch_convert_format
  \/ batch_convert_file

SpecBatch == Init /\ [][NextBatch]_vars

\* _find_optimal_quality on its own, one statement group at a time. The thread
\* that runs the search keeps running it.
NextSearch ==
  \/ Call(FindQualityRequests)
  \/ find_optimal_quality_probe
  \/ find_optimal_quality_loop

SpecSearch ==
  /\ Init
  /\ [][NextSearch]_vars
  /\ WF_vars(find_optimal_quality_probe)
  /\ WF_vars(find_optimal_quality_loop)

\* Calls in sequence, each on the image the previous one returned.
NextChain ==
  \/ Call(ChainRequests)
  \/ ValidateFormats
  \/ OpenImage
  \/ RotateStage
  \/ FlipStage
  \/ CropStage
  \/ ResizeStage
  \/ SaveImage
  \/ Resubmit(ChainRequests)

SpecChain == Init /\ [][NextChain]_vars

(***************************************************************************)
(* Properties.                                                             *)
(***************************************************************************)
IsPipeline == pc # "idle" /\ req.fn = "process_image_bytes"

IsResizeImage == pc # "idle" /\ req.fn = "resize_image"

IsCropImage == pc # "idle" /\ req.fn = "crop_image"

CropRequested ==
  NotNone(req.crop_x) /\ NotNone(req.crop_y)
    /\ NotNone(req.crop_width) /\ NotNone(req.crop_height)

ResizeRequested ==
  TruthyInt(req.resize_width) \/ TruthyInt(req.resize_height)
    \/ TruthyScale(req.resize_scale)

StageRank(stage) ==
  CASE stage = "decode" -> 0
    [] stage = "rotate" -> 1
    [] stage = "flip" -> 2
    [] stage = "crop" -> 3
    [] stage = "resize" -> 4
    [] stage = "flatten" -> 5
    [] stage = "encode" -> 6
    [] stage = "convert" -> 7

Logged(stage) ==
  \E i \in 1..Len(Val(res).operations_applied) :
    Val(res).operations_applied[i].stage = stage

\* The sizes the buffer can have after the requested rotation (a flip keeps it).
C1_Rotated ==
  IF IsNone(req.rotate_angle) THEN {req.image.size}
  ELSE RotateSizes(req.image.size, Val(req.rotate_angle), req.rotate_expand)

C1_Cropped(size) ==
  IF CropRequested
    THEN <<Min(Val(req.crop_x) + Val(req.crop_width), size[1]) - Val(req.crop_x),
           Min(Val(req.crop_y) + Val(req.crop_height), size[2]) - Val(req.crop_y)>>
    ELSE size

C1_Resized(size) ==
  IF ResizeRequested
    THEN PipelineResizeTarget(size, req.resize_width, req.resize_height,
                              req.resize_scale, req.resize_keep_ratio)
    ELSE size

\* C1: process_image_bytes runs its stages in the fixed order rotate, flip,
\* crop, resize, flatten, encode, each on the buffer the previous one left: the
\* crop is checked against and cut from the rotated size, the resize target is
\* computed from the cropped size.
C1_FixedStageOrder ==
  IsPipeline =>
    /\ \A i \in 1..(Len(hist) - 1) :
         /\ StageRank(hist[i].stage) < StageRank(hist[i + 1].stage)
         /\ hist[i].after = hist[i + 1].before
    /\ (pc = "returned") =>
         \E rotated \in C1_Rotated :
           /\ CropRequested =>
                Val(req.crop_x) < rotated[1] /\ Val(req.crop_y) < rotated[2]
           /\ Val(res).output_size = C1_Resized(C1_Cropped(rotated))
    /\ (pc = "raised" /\ Val(res).at = "crop") =>
         \E rotated \in C1_Rotated :
           Val(req.crop_x) >= rotated[1] \/ Val(req.crop_y) >= rotated[2]

\* 200x150, rotate 90, horizontal flip, scale 50: 75x100.
C1_RotateFlipScale ==
  /\ IsPipeline
  /\ pc = "returned"
  /\ req.image.size = <<200, 150>>
  /\ req.rotate_angle = Some(90)
  /\ req.flip_direction = Some("horizontal")
  /\ ~CropRequested
  /\ req.resize_scale = Some(Pct(50, 1))
  /\ Val(res).output_size = <<75, 100>>

\* C2: on a successful process_image_bytes call the log has one entry per
\* stage that ran, in pipeline order, a stage is logged exactly when it was
\* requested and ran, and the format conversion entry stands alone exactly when
\* no stage ran; the log is never empty.
C2_LogMatchesStages ==
  (IsPipeline /\ pc = "returned") =>
    LET log == Val(res).operations_applied
        ran == SelectSeq(hist, LAMBDA h : h.stage \in {"rotate", "flip", "crop", "resize"})
    IN  /\ log # <<>>
        /\ IF ran = <<>>
             THEN Len(log) = 1 /\ log[1].stage = "convert"
             ELSE /\ Len(log) = Len(ran)
                  /\ \A i \in 1..Len(log) : log[i].stage = ran[i].stage
        /\ \A i \in 1..Len(log) : \A j \in 1..Len(log) :
             i < j => StageRank(log[i].stage) < StageRank(log[j].stage)
        /\ Logged("rotate") <=> NotNone(req.rotate_angle)
        /\ Logged("flip") <=> TruthyStr(req.flip_direction)
        /\ Logged("crop") <=> CropRequested
        /\ Logged("resize") <=> ResizeRequested

\* All four stages ran and were logged.
C2_AllFourLogged ==
  /\ IsPipeline
  /\ pc = "returned"
  /\ Len(Val(res).operations_applied) = 4
  /\ Logged("rotate") /\ Logged("flip") /\ Logged("crop") /\ Logged("resize")

\* C3: a crop_image call whose origin is inside the W x H image returns the
\* size (min(x+width, W) - x, min(y+height, H) - y), adjusted exactly when an
\* axis was clamped, and one adjustment message per clamped axis.
C3_CropClamped ==
  (IsCropImage /\ pc = "returned") =>
    LET W == req.image.size[1]
        H == req.image.size[2]
        r == Val(res)
    IN  /\ req.x < W /\ req.y < H
        /\ r.output_size = <<Min(req.x + req.width, W) - req.x,
                             Min(req.y + req.height, H) - req.y>>
        /\ r.adjusted <=> (req.x + req.width > W \/ req.y + req.height > H)
        /\ Len(r.adjustment_messages) =
             (IF req.x + req.width > W THEN 1 ELSE 0)
               + (IF req.y + req.height > H THEN 1 ELSE 0)

\* 100x100 cropped at 10,10 by 200x200: 90x90, adjusted, two messages.
C3_BothAxesClamped ==
  /\ IsCropImage
  /\ pc = "returned"
  /\ req.image.size = <<100, 100>>
  /\ <<req.x, req.y, req.width, req.height>> = <<10, 10, 200, 200>>
  /\ Val(res).output_size = <<90, 90>>
  /\ Val(res).adjusted
  /\ Len(Val(res).adjustment_messages) = 2

\* crop_image gets as far as its bounds check.
C4_CropImageReachesBounds ==
  /\ req.exists
  /\ _is_valid_input_format(LowerStrip(req.input_format))
  /\ _is_valid_output_format(LowerStrip(req.output_format))
  /\ req.x >= 0 /\ req.y >= 0 /\ req.width > 0 /\ req.height > 0
  /\ ~req.image.corrupt
  /\ LowerStrip(req.input_format) = "svg" => req.SVG_SUPPORTED

C4_Step ==
  /\ (IsPipeline /\ pc = "crop" /\ CropRequested) =>
       IF Val(req.crop_x) >= img.size[1] \/ Val(req.crop_y) >= img.size[2]
         THEN /\ pc' = "raised"
              /\ Val(res').raised = "ValueError"
              /\ HttpStatus(Val(res').raised) = 400
              /\ hist' = hist
         ELSE pc' # "raised"
  /\ (IsCropImage /\ pc = "validate" /\ C4_CropImageReachesBounds) =>
       IF req.x >= req.image.size[1] \/ req.y >= req.image.size[2]
         THEN /\ pc' = "raised"
              /\ Val(res').raised = "ValueError"
              /\ \A i \in 1..Len(hist') : hist'[i].stage # "encode"
         ELSE pc' = "raised" => Val(res').at = "save"

\* C4: a crop whose start point is outside the current image raises
\* ValueError (a 400 of the upload routes) and nothing is cropped or encoded,
\* whatever the requested width and height; a crop whose start point is inside
\* is never rejected by the bounds check.
C4_CropStartRejected == [][C4_Step]_vars

\* The pipeline's crop rejected a 200x200 request whose start is outside.
C4_RejectedOutside ==
  /\ IsPipeline
  /\ pc = "raised"
  /\ Val(res).at = "crop"
  /\ Val(res).raised = "ValueError"
  /\ req.crop_width = Some(200)

\* Python's round() of n / d for n >= 0, d > 0: to nearest, ties to even.
RoundHalfEven(n, d) ==
  IF 2 * (n % d) < d THEN n \div d
  ELSE IF 2 * (n % d) > d THEN n \div d + 1
  ELSE IF (n \div d) % 2 = 0 THEN n \div d
  ELSE n \div d + 1

\* The resize steps of the running call: what the buffer was and became.
ResizeSteps == SelectSeq(hist, LAMBDA h : h.stage = "resize")

WidthOnly(width, height, scale) ==
  TruthyInt(width) /\ IsNone(height) /\ IsNone(scale)

BothWithRatio(width, height, scale, keep) ==
  TruthyInt(width) /\ TruthyInt(height) /\ IsNone(scale) /\ keep

C5_Holds(step, width) ==
  step.after = <<width, RoundHalfEven(step.before[2] * width, step.before[1])>>

\* C5: a resize given only a width returns exactly that width and the height
\* round(height * width / original_width).
C5_WidthOnlyRounds ==
  /\ (IsPipeline /\ WidthOnly(req.resize_width, req.resize_height, req.resize_scale)) =>
       \A i \in 1..Len(ResizeSteps) : C5_Holds(ResizeSteps[i], Val(req.resize_width))
  /\ (IsResizeImage /\ WidthOnly(req.width, req.height, req.scale)
        /\ req.keep_aspect_ratio) =>
       \A i \in 1..Len(ResizeSteps) : C5_Holds(ResizeSteps[i], Val(req.width))

C6_Holds(step, width, height) ==
  /\ step.after[1] <= width
  /\ step.after[2] <= height
  /\ step.after[1] = width \/ step.after[2] = height

\* C6: a resize given width and height with keep-ratio fits in the box on both
\* axes and meets at least one of the two bounds exactly.
C6_FitsBoxAndTouches ==
  /\ (IsPipeline /\ BothWithRatio(req.resize_width, req.resize_height,
                                  req.resize_scale, req.resize_keep_ratio)) =>
       \A i \in 1..Len(ResizeSteps) :
         C6_Holds(ResizeSteps[i], Val(req.resize_width), Val(req.resize_height))
  /\ (IsResizeImage /\ BothWithRatio(req.width, req.height, req.scale,
                                     req.keep_aspect_ratio)) =>
       \A i \in 1..Len(ResizeSteps) :
         C6_Holds(ResizeSteps[i], Val(req.width), Val(req.height))

\* floor(current * s / 100) for the percentage s = num/den as written.
FloorOfWritten(current, s) == (current * s.num) \div (s.den * 100)

\* floor(current * f / 100) for the double f, in exact arithmetic.
FloorOfDouble(current, f) ==
  IF f.m = <<>> THEN 0
  ELSE IF f.x >= 0
    THEN BigToNat(BigDivSmall(BigShiftLeft(BigMulSmall(f.m, current), f.x), 100)[1])
  ELSE BigToNat(BigDivSmall(BigShiftRight(BigMulSmall(f.m, current), 0 - f.x)[1], 100)[1])

\* The claimed target, with the percentage read as written or as the double
\* the call receives, either way on both axes.
C7_Holds(step, s) ==
  \/ step.after = <<Max(1, FloorOfWritten(step.before[1], s)),
                    Max(1, FloorOfWritten(step.before[2], s))>>
  \/ step.after = <<Max(1, FloorOfDouble(step.before[1], ScaleFloat(s))),
                    Max(1, FloorOfDouble(step.before[2], ScaleFloat(s)))>>

\* C7: a resize of a W x H buffer by the percentage s > 0 targets
\* (max(1, floor(W*s/100)), max(1, floor(H*s/100))).
C7_ScaleFloors ==
  (IsPipeline /\ NotNone(req.resize_scale) /\ Val(req.resize_scale).num > 0) =>
    \A i \in 1..Len(ResizeSteps) : C7_Holds(ResizeSteps[i], Val(req.resize_scale))

\* C8: a call that sets the scale together with a width or a height is
\* rejected before the image is decoded, by process_image_bytes as by
\* resize_image.
C8_ScaleWithSizeRejected ==
  /\ (IsPipeline /\ pc # "validate" /\ NotNone(req.resize_scale)
        /\ (NotNone(req.resize_width) \/ NotNone(req.resize_height))) =>
       pc = "raised" /\ hist = <<>>
  /\ (IsResizeImage /\ pc # "validate" /\ NotNone(req.scale)
        /\ (NotNone(req.width) \/ NotNone(req.height))) =>
       pc = "raised" /\ hist = <<>>

\* The rotation steps of the running call.
RotateSteps == SelectSeq(hist, LAMBDA h : h.stage = "rotate")

C9_Step(step, angle) ==
  /\ angle % 360 \in {90, 270} =>
       step.after = <<step.before[2], step.before[1]>> /\ step.call = "transpose"
  /\ angle % 360 = 180 => step.after = step.before /\ step.call = "transpose"
  /\ angle % 360 = 0 => step.after = step.before /\ step.call = "none"

\* C9: an angle that is 0, 90, 180 or 270 modulo 360, negative or above 360
\* included, is served by a transpose that swaps width and height for 90 and
\* 270 and keeps them for 0 and 180 whatever the expand flag; a call rotating
\* by 90 followed by a call rotating by 270 returns the original dimensions.
C9_RightAngleTransposes ==
  IsPipeline =>
    /\ NotNone(req.rotate_angle) =>
         \A i \in 1..Len(RotateSteps) : C9_Step(RotateSteps[i], Val(req.rotate_angle))
    /\ (pc = "returned" /\ finished # <<>>
          /\ Val(finished[Len(finished)].req.rotate_angle) % 360 = 90
          /\ Val(req.rotate_angle) % 360 = 270) =>
         Val(res).output_size = finished[Len(finished)].req.image.size

\* 200x150 rotated by 90 and then, with the expand flag off, by -90.
C9_QuarterTurnsRestore ==
  /\ IsPipeline
  /\ pc = "returned"
  /\ Len(finished) = 1
  /\ finished[1].req.image.size = <<200, 150>>
  /\ finished[1].req.rotate_angle = Some(90)
  /\ finished[1].res.output_size = <<150, 200>>
  /\ req.rotate_angle = Some(-90)
  /\ ~req.rotate_expand
  /\ Val(res).output_size = <<200, 150>>

HasAlpha(mode) == mode \in {"RGBA", "LA"}

\* C10: a buffer with an alpha channel that goes to jpg, jpeg, bmp, jp2 or j2k
\* is composited before it is encoded, and what is returned has no alpha
\* channel and the buffer's dimensions; for any other format, and for a buffer
\* without alpha, nothing is composited.
C10_AlphaFlattened ==
  (IsPipeline /\ \E i \in 1..Len(hist) : hist[i].stage = "encode") =>
    IF HasAlpha(img.mode) /\ loc.output_format \in {"jpg", "jpeg", "bmp", "jp2", "j2k"}
      THEN /\ \E i \in 1..Len(hist) : \E j \in 1..Len(hist) :
                i < j /\ hist[i].stage = "flatten" /\ hist[j].stage = "encode"
           /\ pc = "returned" =>
                ~HasAlpha(Val(res).output_mode) /\ Val(res).output_size = img.size
      ELSE \A i \in 1..Len(hist) : hist[i].stage # "flatten"


(***************************************************************************)
(* compress_image and the quality search.                                  *)
(***************************************************************************)
IsCompress == pc # "idle" /\ req.fn = "compress_image"

IsQualitySearch == pc # "idle" /\ req.fn = "_find_optimal_quality"

\* No quality of the encoder fits the budget.
Unreachable(sizes, target_size_bytes) ==
  \A quality \in 1..95 : _get_image_size_at_quality(sizes, quality) > target_size_bytes

\* The encoded size does not shrink when the quality grows.
NonDecreasing(sizes) ==
  \A quality \in 1..94 :
    _get_image_size_at_quality(sizes, quality)
      <= _get_image_size_at_quality(sizes, quality + 1)

\* C11: when no quality fits the byte budget, compress_image returns
\* successfully and what it wrote is the encoding at quality 1, larger than the
\* budget.
C11_UnreachableWritesQualityOne ==
  (/\ IsCompress
   /\ pc = "returned"
   /\ NotNone(req.target_size_kb)
   /\ LowerStrip(req.output_format) \in QUALITY_FORMATS
   /\ NonDecreasing(req.sizes)
   /\ Unreachable(req.sizes, Val(req.target_size_kb) * 1024))
    => /\ Val(res).success
       /\ Val(res).final_quality = 1
       /\ Val(res).output_size = _get_image_size_at_quality(req.sizes, 1)
       /\ Val(res).output_size > Val(req.target_size_kb) * 1024

\* C12: for an image whose encoded size is non-decreasing in the quality, the
\* quality found for a byte budget is at most the quality found for every
\* larger budget, unreachable budgets included.
C12_MonotoneInTarget ==
  (/\ IsQualitySearch
   /\ pc = "returned"
   /\ NonDecreasing(req.sizes))
    => \A larger \in {0, 1024, 20480, 51200, 204800} :
         req.target_size_bytes < larger
           => Val(res).quality
                <= _find_optimal_quality(req.sizes, req.output_format, larger,
                                         req.tolerance)

\* C13: the quality _find_optimal_quality returns lies in 1..95, for every
\* image, output format, target size and tolerance, whether it is called on its
\* own or by compress_image.
C13_QualityInRange ==
  /\ (IsQualitySearch /\ pc = "returned") => Val(res).quality \in 1..95
  /\ (IsCompress /\ pc = "returned" /\ NotNone(req.target_size_kb))
       => Val(res).final_quality \in 1..95

\* The search ran its loop and ended on a quality it probed.
C13_SearchProbed ==
  /\ IsQualitySearch
  /\ pc = "returned"
  /\ req.output_format \in QUALITY_FORMATS
  /\ _get_image_size_at_quality(req.sizes, 95) > req.target_size_bytes
  /\ Val(res).quality \notin {85, 95}

(***************************************************************************)
(* The upload validators.                                                  *)
(***************************************************************************)
\* validate_image_file has run on the upload: loc holds its ext and
\* detected_format.
Validated == "ext" \in DOMAIN loc

\* It raised the HTTPException with status 415.
Rejected415 ==
  /\ pc = "responded"
  /\ Val(res).status = 415
  /\ Val(res).at = "validate_image_file"

\* It returned tag: the pipeline is entered with it, unless the output format
\* is rejected next.
ResolvedTo(tag) ==
  \/ pc = "responded" /\ Val(res).at = "validate_output_format"
  \/ pc = "validate" /\ req.fn = "process_image_bytes" /\ req.input_format = tag

\* C14: validate_image_file rejects with 415 an extension that is present and
\* not accepted, whatever the bytes; otherwise it returns the sniffed tag when
\* there is one, whatever the extension; otherwise the extension when one is
\* present; otherwise it rejects with 415.
C14_FourStepPolicy ==
  Validated =>
    IF loc.ext # "" /\ loc.ext \notin ALLOWED_EXTENSIONS THEN Rejected415
    ELSE IF NotNone(loc.detected_format) THEN ResolvedTo(Val(loc.detected_format))
    ELSE IF loc.ext # "" THEN ResolvedTo(loc.ext)
    ELSE Rejected415

\* A file named with one accepted extension whose bytes sniff to another tag
\* enters the pipeline under the sniffed tag.
C14_SniffedTagReturned ==
  /\ Validated
  /\ pc = "validate"
  /\ loc.ext \in ALLOWED_EXTENSIONS
  /\ NotNone(loc.detected_format)
  /\ Val(loc.detected_format) # loc.ext
  /\ req.input_format = Val(loc.detected_format)

\* C17: an upload whose declared extension is tga is resolved to the tag tga,
\* whatever its leading bytes are.
C17_TgaExtensionResolvesToTga ==
  (Validated /\ loc.ext = "tga") => ResolvedTo("tga")

\* C18: data that starts with RIFF is sniffed as webp only if its bytes 8 to 12
\* are WEBP; every other RIFF-prefixed input, shorter than 12 bytes included,
\* is not.
C18_RiffIsWebpOnlyWithFormType ==
  (Validated /\ startswith(req.data, <<82, 73, 70, 70>>))
    => (loc.detected_format = Some("webp")
          <=> (Len(req.data) >= 12 /\ Slice(req.data, 8, 12) = <<87, 69, 66, 80>>))

\* The bytes sniff to a concrete tag other than the accepted declared extension.
Mismatch ==
  /\ Validated
  /\ loc.ext \in ALLOWED_EXTENSIONS
  /\ NotNone(loc.detected_format)
  /\ Val(loc.detected_format) # loc.ext

\* C19 as stated: on a mismatch the validator resolves to the extension if it
\* is heif, heic or avif and to the sniffed tag for every other extension.
C19_IsoExtensionTrusted ==
  Mismatch => IF loc.ext \in {"heif", "heic", "avif"}
                THEN ResolvedTo(loc.ext)
                ELSE ResolvedTo(Val(loc.detected_format))

\* C19, amended: on a mismatch the validator resolves to the sniffed tag for
\* every declared extension, heif, heic and avif included, and never rejects.
C19_SniffedTagTrusted ==
  Mismatch => ResolvedTo(Val(loc.detected_format))

\* A file named .heif, .heic or .avif with the bytes of another format enters
\* the pipeline under the sniffed tag.
C19_IsoMismatchResolved ==
  /\ Mismatch
  /\ loc.ext \in {"heif", "heic", "avif"}
  /\ pc = "validate"
  /\ req.input_format = Val(loc.detected_format)

(***************************************************************************)
(* Output formats and flip directions.                                     *)
(***************************************************************************)
IsUpload == pc # "idle" /\ "filename" \in DOMAIN req

IsFileCall == pc # "idle" /\ "exists" \in DOMAIN req

\* The call names an output format: a form field or argument that is not
\* empty, or the suffix of the output path.
OutputRequested ==
  \/ IsFileCall
  \/ (IsUpload \/ IsPipeline) /\ TruthyStr(req.output_format)

\* The tag it names, in small letters and without its dot.
RequestedTag ==
  LowerStrip(IF IsFileCall THEN req.output_format ELSE Val(req.output_format))

\* C15: an output format outside the read-write set (svg, or an unknown tag) is
\* rejected before anything is decoded: by the HTTP validator, which answers 400
\* and does not call the service, and by every operation of ImageService,
\* which raises ValueError; and no format is both read-write and read-only.
C15_OutputOnlyReadWrite ==
  /\ DOMAIN SUPPORTED_FORMATS \cap READ_ONLY_FORMATS = {}
  /\ (OutputRequested /\ RequestedTag \notin DOMAIN SUPPORTED_FORMATS)
       => /\ hist = <<>>
          /\ img = None
          /\ pc \in {"validate", "raised", "responded"}
          /\ IsUpload
               => /\ req.fn = "upload_and_process"
                  /\ pc = "responded"
                       => /\ Val(res).at \in {"read", "empty", "validate_image_file",
                                              "validate_output_format"}
                          /\ Val(res).at = "validate_output_format"
                               => Val(res).status = 400
          /\ (~IsUpload /\ pc = "raised")
               => /\ Val(res).at = "validate"
                  /\ Val(res).raised =
                       (IF IsFileCall /\ ~req.exists
                          THEN "FileNotFoundError" ELSE "ValueError")

\* An operation on an existing file was asked to write svg and raised
\* ValueError.
C15_SvgOutputRejected ==
  /\ IsFileCall
  /\ req.exists
  /\ req.fn = "rotate_image"
  /\ LowerStrip(req.input_format) = "png"
  /\ RequestedTag = "svg"
  /\ pc = "raised"
  /\ Val(res).raised = "ValueError"

\* The flip entries of the codec calls made.
FlipCalls == {i \in 1..Len(hist) : hist[i].stage = "flip"}

\* The direction the call names, when it names one.
FlipRequested ==
  \/ pc # "idle" /\ req.fn = "flip_image"
  \/ (IsUpload \/ IsPipeline) /\ TruthyStr(req.flip_direction)

FlipDirection ==
  IF req.fn = "flip_image" THEN req.direction ELSE Val(req.flip_direction)

\* C16: a flip leaves width and height as they were, for both directions; a
\* direction that is neither horizontal nor vertical, whatever its case, is
\* rejected with a ValueError (status 400 over HTTP) before a flip is performed
\* and without output.
C16_FlipKeepsSizeOrRejects ==
  /\ \A i \in FlipCalls :
       /\ hist[i].before = hist[i].after
       /\ hist[i].call \in {"horizontal", "vertical"}
  /\ (/\ FlipRequested
      /\ FlipDirection \in {"horizontal", "Horizontal", "HORIZONTAL",
                            "vertical", "Vertical", "VERTICAL"}
      /\ pc = "returned")
       => /\ Cardinality(FlipCalls) = 1
          /\ req.fn = "flip_image" => Val(res).output_size = Val(res).original_size
  /\ (/\ FlipRequested
      /\ FlipDirection \in {"horizontal", "Horizontal", "HORIZONTAL",
                            "vertical", "Vertical", "VERTICAL"}
      /\ pc = "raised")
       => /\ Val(res).at # "flip"
          /\ (/\ req.fn = "flip_image"
              /\ req.exists
              /\ LowerStrip(req.input_format) \in {"png", "svg"}
              /\ LowerStrip(req.output_format) \in {"png", "jpg"})
               => Val(res).at # "validate"
  /\ (/\ FlipRequested
      /\ FlipDirection \notin {"horizontal", "Horizontal", "HORIZONTAL",
                               "vertical", "Vertical", "VERTICAL"}
      /\ pc \in {"returned", "raised", "responded"})
       => /\ FlipCalls = {}
          /\ \A i \in 1..Len(hist) : hist[i].stage # "encode"
          /\ pc # "returned"
          /\ pc = "raised"
               => (IF req.fn = "flip_image" /\ ~req.exists
                     THEN Val(res).raised = "FileNotFoundError"
                     ELSE Val(res).raised \in {"ValueError", "Exception"})
          /\ (pc = "raised" /\ Val(res).at = "flip")
               => Val(res).raised = "ValueError" /\ HttpStatus(Val(res).raised) = 400
          /\ (pc = "responded" /\ Val(res).at = "flip") => Val(res).status = 400

\* An upload asked for a flip that is no direction and was answered 400.
C16_BadDirectionAnswered400 ==
  /\ IsUpload
  /\ TruthyStr(req.flip_direction)
  /\ Val(req.flip_direction) = "diagonal"
  /\ pc = "responded"
  /\ Val(res).status = 400
  /\ Val(res).at = "flip"

(***************************************************************************)
(* Single-axis resize in resize_image and in the pipeline.                 *)
(***************************************************************************)
\* Only the width or only the height is given.
SingleAxis(width, height, scale) ==
  /\ IsNone(scale)
  /\ (TruthyInt(width) /\ IsNone(height)) \/ (IsNone(width) /\ TruthyInt(height))

\* C20: for a resize that gives only the width or only the height, the target
\* size is the same with the keep-ratio flag true and false, in resize_image
\* and in the resize stage of the pipeline, and the two compute the same target
\* for the same inputs.
C20_SingleAxisSameTarget ==
  /\ (/\ IsResizeImage
      /\ pc = "returned"
      /\ SingleAxis(req.width, req.height, req.scale))
       => /\ Val(res).output_size =
               ResizeImageTarget(req.image.size, req.width, req.height, None,
                                 ~req.keep_aspect_ratio)
          /\ Val(res).output_size =
               PipelineResizeTarget(req.image.size, req.width, req.height, None,
                                    req.keep_aspect_ratio)
  /\ (/\ IsPipeline
      /\ pc = "returned"
      /\ IsNone(req.rotate_angle)
      /\ ~CropRequested
      /\ SingleAxis(req.resize_width, req.resize_height, req.resize_scale))
       => /\ Val(res).output_size =
               PipelineResizeTarget(req.image.size, req.resize_width, req.resize_height,
                                    None, ~req.resize_keep_ratio)
          /\ Val(res).output_size =
               ResizeImageTarget(req.image.size, req.resize_width, req.resize_height,
                                 None, req.resize_keep_ratio)

\* The box the running request hands to the codec's crop on a buffer of the
\* given size.
HandedBox(size) ==
  IF req.fn = "crop_image"
    THEN crop_box(req.x, req.y, req.width, req.height, size)
  ELSE CropBox(Val(req.crop_x), Val(req.crop_y), Val(req.crop_width),
               Val(req.crop_height), size)

BoxInside(box, size) ==
  /\ 0 <= box[1] /\ box[1] < box[3] /\ box[3] <= size[1]
  /\ 0 <= box[2] /\ box[2] < box[4] /\ box[4] <= size[2]

\* C21: in every call of crop_image or process_image_bytes that returns, each
\* box handed to the codec's crop lies inside the buffer it is applied to and
\* is not empty: 0 <= x < x2 <= W and 0 <= y < y2 <= H.
C21_CropBoxInside ==
  pc = "returned" /\ req.fn \in {"crop_image", "process_image_bytes"}
    => \A i \in 1..Len(hist) :
         hist[i].call = "crop" => BoxInside(HandedBox(hist[i].before), hist[i].before)

PartialCrop ==
  LET fields == {req.crop_x, req.crop_y, req.crop_width, req.crop_height}
  IN  (\E v \in fields : IsNone(v)) /\ (\E v \in fields : NotNone(v))

\* C22: process_image_bytes never returns a result for a request that gives
\* some but not all of crop_x, crop_y, crop_width and crop_height.
C22_PartialCropRejected ==
  pc = "returned" /\ req.fn = "process_image_bytes" => ~PartialCrop

\* C23: when process_image_bytes rejects a request for its input format, its
\* output format or its flip direction, no codec call has been made: the
\* image has not been decoded and no stage has run.
C23_RejectedBeforeDecode ==
  (/\ pc = "raised"
   /\ req.fn = "process_image_bytes"
   /\ Val(res).raised = "ValueError"
   /\ Val(res).at \in {"validate", "flip"})
    => hist = <<>>

\* C24: in every operation that encodes, the alpha composite is the codec call
\* made immediately before the encode, so every geometric transform of the
\* operation (compress_image's thumbnail included) has run before it.
C24_FlattenJustBeforeEncode ==
  \A i \in 1..Len(hist) :
    hist[i].stage = "flatten" => i < Len(hist) /\ hist[i + 1].stage = "encode"

(***************************************************************************)
(* What the quality search returns.                                        *)
(***************************************************************************)
\* The bytes the running call's image encodes to at a quality, in the format
\* the call writes.
EncodedAt(quality) ==
  output_file_size(req.sizes, LowerStrip(req.output_format), quality)

SizeNonDecreasing == \A quality \in 1..94 : EncodedAt(quality) <= EncodedAt(quality + 1)

Fits(target_size_bytes) == \E quality \in 1..95 : EncodedAt(quality) <= target_size_bytes

\* C25: for an image whose encoded size is non-decreasing in the quality, when
\* some quality of 1..95 encodes to at most the target, the quality returned
\* encodes to at most target + tolerance bytes; compress_image searches with
\* a tolerance of 1024 and writes a file of at most target + 1024 bytes.
C25_StaysUnderBudget ==
  /\ (/\ IsQualitySearch
      /\ pc = "returned"
      /\ SizeNonDecreasing
      /\ Fits(req.target_size_bytes))
       => EncodedAt(Val(res).quality) <= req.target_size_bytes + req.tolerance
  /\ (/\ IsCompress
      /\ pc = "returned"
      /\ NotNone(req.target_size_kb)
      /\ SizeNonDecreasing
      /\ Fits(Val(req.target_size_kb) * 1024))
       => /\ EncodedAt(Val(res).final_quality) <= Val(req.target_size_kb) * 1024 + 1024
          /\ Val(res).output_size <= Val(req.target_size_kb) * 1024 + 1024

\* The search ended on a quality below 95 whose encoding is over the target
\* and within the tolerance, while smaller qualities fit the target.
C25_ReturnedWithinTolerance ==
  /\ IsQualitySearch
  /\ pc = "returned"
  /\ req.output_format \in QUALITY_FORMATS
  /\ SizeNonDecreasing
  /\ Fits(req.target_size_bytes)
  /\ Val(res).quality < 95
  /\ EncodedAt(Val(res).quality) > req.target_size_bytes
  /\ EncodedAt(Val(res).quality) <= req.target_size_bytes + req.tolerance

SearchProbes == {i \in 1..Len(hist) : hist[i].stage = "probe"}

\* C26: _find_optimal_quality returns for every size curve (monotone or not),
\* target and tolerance; for a format without a quality setting it makes no
\* probe encode, otherwise its first probe is at quality 95 and at most 7
\* more follow in the loop; what it returns is what the search computes.
C26_SearchTerminatesWithinProbes ==
  /\ [](IsQualitySearch =>
          /\ req.output_format \notin QUALITY_FORMATS => SearchProbes = {}
          /\ Cardinality(SearchProbes) <= 1 + 7
          /\ SearchProbes # {} => hist[1].quality = 95
          /\ pc = "search" => SearchProbes # {}
          /\ pc = "returned"
               => /\ req.output_format \in QUALITY_FORMATS => SearchProbes # {}
                  /\ Val(res).quality
                       = _find_optimal_quality(req.sizes, req.output_format,
                                               req.target_size_bytes, req.tolerance))
  /\ (IsQualitySearch ~> (IsQualitySearch /\ pc = "returned"))

\* A search returned after the probe at 95 and seven probes in the loop.
C26_SevenLoopProbes ==
  /\ IsQualitySearch
  /\ pc = "returned"
  /\ Cardinality(SearchProbes) = 8

WithinTolerance(quality) ==
  Abs(EncodedAt(quality) - req.target_size_bytes) <= req.tolerance

LargestFitting(quality) ==
  /\ EncodedAt(quality) <= req.target_size_bytes
  /\ \A larger \in (quality + 1)..95 : EncodedAt(larger) > req.target_size_bytes

\* The three outcomes a search over the qualities can end in.
SearchOutcome(quality) ==
  \/ WithinTolerance(quality)
  \/ LargestFitting(quality)
  \/ quality = 85 /\ ~Fits(req.target_size_bytes)

\* C28: for an image whose encoded size is non-decreasing in the quality, the
\* quality _find_optimal_quality returns encodes to within the tolerance of
\* the target, or is the largest quality of 1..95 whose encoding is at most the
\* target, or is 85 when no quality of 1..95 fits the target.
C28_SearchOutcome ==
  (IsQualitySearch /\ pc = "returned" /\ SizeNonDecreasing)
    => SearchOutcome(Val(res).quality)

\* C28, for the formats the search is run for: with an output format that has
\* a quality setting the returned quality is one of the three outcomes; for
\* any other format 95 is returned, whatever the image encodes to.
C28_SearchOutcomeForQualityFormats ==
  (IsQualitySearch /\ pc = "returned" /\ SizeNonDecreasing)
    => IF req.output_format \in QUALITY_FORMATS
         THEN SearchOutcome(Val(res).quality)
         ELSE Val(res).quality = 95

\* The loop ended on the largest quality that fits, below 95 and further from
\* the target than the tolerance.
C28_LargestFittingFound ==
  /\ IsQualitySearch
  /\ pc = "returned"
  /\ req.output_format \in QUALITY_FORMATS
  /\ SizeNonDecreasing
  /\ Val(res).quality < 95
  /\ LargestFitting(Val(res).quality)
  /\ ~WithinTolerance(Val(res).quality)

(***************************************************************************)
(* The validator's tags and the formats of the service.                    *)
(***************************************************************************)
\* Every tag validate_image_file can return: an accepted extension, or what
\* detect_format_from_magic_bytes can detect.
ReturnableTags ==
  ALLOWED_EXTENSIONS
    \cup {MAGIC_BYTES[i].fmt : i \in 1..Len(MAGIC_BYTES)}
    \cup {"svg", "avif", "heic", "jp2"}

\* The output format process_image_bytes writes when none is requested.
DefaultOutputFormat(input_format) == IF input_format = "svg" THEN "png" ELSE input_format

\* The upload passed both validators and was handed to process_image_bytes.
UploadInPipeline == IsUpload /\ req.fn = "process_image_bytes"

\* C29: every tag validate_image_file can return is a valid input format of
\* ImageService, and the output format resolved from it when none is requested
\* is writable and has an entry in the MIME table; a validated upload without
\* output_format is never rejected at the format validation of the pipeline,
\* and a 200 answer to it carries a media type of the table.
C29_ValidatedTagsSupported ==
  /\ \A tag \in ReturnableTags :
       /\ _is_valid_input_format(tag)
       /\ LowerStrip(tag) = tag
       /\ _is_valid_output_format(DefaultOutputFormat(tag))
       /\ FORMAT_TO_MIME(DefaultOutputFormat(tag)) # "application/octet-stream"
  /\ Validated /\ NotNone(validate_image_file(req.data, req.filename))
       => Val(validate_image_file(req.data, req.filename)) \in ReturnableTags
  /\ UploadInPipeline => req.input_format \in ReturnableTags
  /\ (UploadInPipeline /\ ~TruthyStr(req.output_format))
       => /\ pc = "raised" => Val(res).at # "validate"
          /\ (pc = "responded" /\ Val(res).status # 200) => Val(res).at # "validate"
          /\ (pc = "responded" /\ Val(res).status = 200)
               => Val(res).media_type
                    = FORMAT_TO_MIME(DefaultOutputFormat(req.input_format))
          /\ pc = "returned"
               => Val(res).output_format = DefaultOutputFormat(req.input_format)

\* An upload of svg text with no output format was answered 200 with a png.
C29_SvgUploadAnsweredAsPng ==
  /\ UploadInPipeline
  /\ IsNone(req.output_format)
  /\ req.input_format = "svg"
  /\ pc = "responded"
  /\ Val(res).status = 200
  /\ Val(res).media_type = "image/png"

(***************************************************************************)
(* batch_convert_format.                                                   *)
(***************************************************************************)
IsBatch == pc # "idle" /\ req.fn = "batch_convert_format"

\* The files on the disk that the patterns name and whose suffix is a format
\* the service writes.
NamedFiles ==
  {path \in DOMAIN req.disk :
     /\ suffix_ext(path) \in DOMAIN SUPPORTED_FORMATS
     /\ \E i \in 1..Len(req.input_patterns) :
          path \in matched_files(req.input_patterns[i], DOMAIN req.disk)}

EntriesOf(results, path) == {i \in 1..Len(results) : results[i].input_file = path}

Succeeded(results) == {i \in 1..Len(results) : results[i].success}

RECURSIVE SizeSum(_, _, _)
SizeSum(results, indices, input) ==
  IF indices = {} THEN 0
  ELSE LET i == CHOOSE j \in indices : TRUE
       IN  (IF input THEN results[i].result.input_size ELSE results[i].result.output_size)
             + SizeSum(results, indices \ {i}, input)

\* C30: batch_convert_format attempts every file that the patterns name, that
\* exists and that has a supported suffix exactly once, whether or not other
\* files failed; in the summary success_count + fail_count = total = the number
\* of result entries = the number of those files, and the two size totals are
\* the sums over the successful entries.
C30_BatchAttemptsEachFileOnce ==
  /\ (IsBatch /\ pc = "batch")
       => /\ \A path \in NamedFiles :
               Cardinality(EntriesOf(loc.results, path))
                 = (IF path \in loc.valid_files THEN 0 ELSE 1)
          /\ loc.valid_files \subseteq NamedFiles
  /\ (IsBatch /\ pc = "returned")
       => LET summary == Val(res)
          IN  /\ \A path \in NamedFiles :
                   Cardinality(EntriesOf(summary.results, path)) = 1
              /\ \A i \in 1..Len(summary.results) :
                   /\ summary.results[i].input_file \in NamedFiles
                   /\ req.disk[summary.results[i].input_file].corrupt
                        => ~summary.results[i].success
              /\ summary.success_count + summary.fail_count = summary.total
              /\ summary.total = Len(summary.results)
              /\ summary.total = Cardinality(NamedFiles)
              /\ summary.success_count = Cardinality(Succeeded(summary.results))
              /\ summary.total_input_size
                   = SizeSum(summary.results, Succeeded(summary.results), TRUE)
              /\ summary.total_output_size
                   = SizeSum(summary.results, Succeeded(summary.results), FALSE)

\* A batch named one file twice among others, a conversion failed first and
\* later ones succeeded.
C30_FailureThenSuccesses ==
  /\ IsBatch
  /\ pc = "returned"
  /\ Len(req.input_patterns) = 2
  /\ req.input_patterns[2] = "photo.png"
  /\ Val(res).total = 4
  /\ ~Val(res).results[1].success
  /\ Val(res).results[2].success
  /\ Val(res).results[4].success
  /\ Val(res).fail_count = 1

(***************************************************************************)
(* Concurrent requests on the pool.                                        *)
(***************************************************************************)
\* The requests a worker is running.
Running == {id \in PoolIds : loc[id] # 0}

\* process_image_bytes run on its own from a statement group on.
RECURSIVE RunAlone(_, _, _, _)
RunAlone(stage, request, buffer, operations_applied) ==
  LET out == stage_result(stage, request, buffer, operations_applied)
  IN  IF NotNone(out.raised) THEN [raised |-> Val(out.raised), at |-> stage]
      ELSE IF stage = "save"
        THEN pipeline_result(request, out.buffer, out.operations_applied)
      ELSE RunAlone(StageAfter(stage), request, out.buffer, out.operations_applied)

\* C27: however the requests handed to the pool interleave, at most 4 are in
\* progress and no worker runs two at once; the statement groups of a request
\* run in program order, and on the one worker that took it; the locals a
\* request reads were written by that request; and what a request returns or
\* raises is what process_image_bytes gives for its inputs when run alone.
C27_RequestsIsolated ==
  /\ [](/\ Cardinality(Running) <= 4
        /\ \A a \in Running : \A b \in Running : a # b => loc[a] # loc[b]
        /\ \A id \in PoolIds :
             /\ loc[id] \in 0..4
             /\ loc[id] # 0 <=> pc[id] \in {"validate", "open", "rotate", "flip", "crop",
                                            "resize", "save"}
             /\ \A i \in 1..Len(hist[id]) :
                  hist[id][i] = (IF i = 1 THEN "validate" ELSE StageAfter(hist[id][i - 1]))
             /\ pc[id] \in {"open", "rotate", "flip", "crop", "resize", "save"}
                  => /\ img[frame(id)].owner = id
                     /\ StageAfter(hist[id][Len(hist[id])]) = pc[id]
             /\ pc[id] \in {"returned", "raised"}
                  => res[id] = Some(RunAlone("validate", req[id], None, <<>>))
             /\ pc[id] \notin {"returned", "raised"} => res[id] = None)
  /\ [][\A id \in PoolIds :
          /\ (loc[id] # 0 /\ loc'[id] # 0) => loc'[id] = loc[id]
          /\ hist'[id] # hist[id] => loc[id] # 0]_vars

\* Four requests are in progress at different statement groups on the four
\* workers while a fifth waits in the queue.
C27_FourRunningOneQueued ==
  /\ Cardinality(Running) = 4
  /\ pc[5] = "queued"
  /\ pc[1] = "save"
  /\ pc[2] = "crop"
  /\ pc[3] = "flip"
  /\ pc[4] = "open"
====
